---- MODULE Spec2Model ----
(***************************************************************************)
(* Cosmos-Admin: the data-access bindings (use-api hooks) with their       *)
(* cache-invalidation rules, and the dialogs that drive them.              *)
(***************************************************************************)
EXTENDS Naturals, Sequences, FiniteSets, TLC

(***************************************************************************)
(* Bounds of the model.                                                    *)
(***************************************************************************)
\* number of asynchronous results alive at one time in the data-access layer:
\* cached query results plus mutation calls in flight
MaxLive == 2
\* length of the longest text typed into a confirmation input
MaxText == 2

\* length of the texts typed into the text fields of a form
MaxField == 2

\* the longest name generateSlug is called with on its own
MaxName == 4

\* record identifiers, and the empty identifier a hook gets before one is known
Ids == {"a", "b"}
NoId == ""

\* the params argument of a list query, as one opaque qualifier of the key
Params == "params"

(***************************************************************************)
(* Query bindings: the cache key and the enabled flag of each useQuery.    *)
(***************************************************************************)
useTenants == [queryKey |-> <<"tenants", Params>>, enabled |-> TRUE]
useTenant(id) == [queryKey |-> <<"tenants", id>>, enabled |-> id # NoId]
useUsers == [queryKey |-> <<"users", Params>>, enabled |-> TRUE]
useUser(id) == [queryKey |-> <<"users", id>>, enabled |-> id # NoId]
useCurrentUser == [queryKey |-> <<"users", "me">>, enabled |-> TRUE]
useRoles == [queryKey |-> <<"roles">>, enabled |-> TRUE]
useClients == [queryKey |-> <<"clients", Params>>, enabled |-> TRUE]
\* the options argument of useClient: enabled is undefined, true or false
ClientQueryOptions == {[enabled |-> e] : e \in {"undefined", "true", "false"}}
NoOptions == [enabled |-> "undefined"]
useClient(id, options) ==
  [queryKey |-> <<"clients", id>>,
   enabled |-> IF options.enabled # "undefined" THEN options.enabled = "true"
               ELSE id # NoId]
useClientAccounts(id) == [queryKey |-> <<"clients", id, "accounts">>, enabled |-> id # NoId]
useClientDocuments(id) == [queryKey |-> <<"clients", id, "documents">>, enabled |-> id # NoId]
useModules == [queryKey |-> <<"modules">>, enabled |-> TRUE]
useAuditLogs == [queryKey |-> <<"audit", Params>>, enabled |-> TRUE]
useDashboardStats == [queryKey |-> <<"stats", "dashboard">>, enabled |-> TRUE]
useTenantStats == [queryKey |-> <<"stats", "tenant">>, enabled |-> TRUE]
useSystemHealth == [queryKey |-> <<"stats", "health">>, enabled |-> TRUE]
\* the tenant query of the branding page
TenantBrandingPage(tenantId) == [queryKey |-> <<"tenant", tenantId>>, enabled |-> tenantId # NoId]
\* the product queries
useProducts == [queryKey |-> <<"products", Params>>, enabled |-> TRUE]
useProduct(id) == [queryKey |-> <<"products", id>>, enabled |-> id # NoId]

\* the queries that read a single item of a collection, with their collection
ItemQueries ==
  {[query |-> useTenant(id), collection |-> "tenants", id |-> id] : id \in Ids}
  \cup {[query |-> useUser(id), collection |-> "users", id |-> id] : id \in Ids}
  \cup {[query |-> useClient(id, NoOptions), collection |-> "clients", id |-> id] : id \in Ids}
  \cup {[query |-> useClientAccounts(id), collection |-> "clients", id |-> id] : id \in Ids}
  \cup {[query |-> useClientDocuments(id), collection |-> "clients", id |-> id] : id \in Ids}
  \cup {[query |-> TenantBrandingPage(id), collection |-> "tenants", id |-> id] : id \in Ids}

Queries ==
  {useTenants, useUsers, useCurrentUser, useRoles, useClients, useModules,
   useAuditLogs, useDashboardStats, useTenantStats, useSystemHealth, useProducts}
  \cup {useTenant(id) : id \in Ids \cup {NoId}}
  \cup {useUser(id) : id \in Ids \cup {NoId}}
  \cup {useClient(id, options) : id \in Ids \cup {NoId}, options \in ClientQueryOptions}
  \cup {useClientAccounts(id) : id \in Ids \cup {NoId}}
  \cup {useClientDocuments(id) : id \in Ids \cup {NoId}}
  \cup {TenantBrandingPage(id) : id \in Ids \cup {NoId}}
  \cup {useProduct(id) : id \in Ids \cup {NoId}}

(***************************************************************************)
(* Mutation bindings.                                                      *)
(***************************************************************************)
\* bindings whose identifier is the hook's argument
UpdateBindings ==
  {"useUpdateTenant", "useUpdateUser", "useChangePassword", "useUpdateClient",
   "useUpdateProduct"}
\* bindings whose identifier is the argument of mutate
DeleteBindings ==
  {"useDeleteTenant", "useDeleteTenantPermanent", "useDeleteUser",
   "useDeleteUserPermanent", "useDeleteClient", "useDeleteProduct"}
\* bindings that take no record identifier
CreateBindings ==
  {"useCreateTenant", "useCreateUser", "useCreateClient", "useEnableModule",
   "useDisableModule", "useCreateProduct"}
MutationBindings == UpdateBindings \cup DeleteBindings \cup CreateBindings

\* the remote endpoint a binding's mutationFn calls
mutationFn(b) ==
  CASE b = "useCreateTenant" -> "api.tenants.create"
    [] b = "useUpdateTenant" -> "api.tenants.update"
    [] b = "useDeleteTenant" -> "api.tenants.delete"
    [] b = "useDeleteTenantPermanent" -> "api.tenants.deletePermanent"
    [] b = "useCreateUser" -> "api.users.create"
    [] b = "useUpdateUser" -> "api.users.update"
    [] b = "useDeleteUser" -> "api.users.delete"
    [] b = "useDeleteUserPermanent" -> "api.users.deletePermanent"
    [] b = "useChangePassword" -> "api.users.changePassword"
    [] b = "useCreateClient" -> "api.clients.create"
    [] b = "useUpdateClient" -> "api.clients.update"
    [] b = "useDeleteClient" -> "api.clients.delete"
    [] b = "useEnableModule" -> "api.modules.enable"
    [] b = "useDisableModule" -> "api.modules.disable"
    [] b = "useCreateProduct" -> "api.products.create"
    [] b = "useUpdateProduct" -> "api.products.update"
    [] b = "useDeleteProduct" -> "api.products.delete"

\* the collection a binding writes to
Resource(b) ==
  CASE b \in {"useCreateTenant", "useUpdateTenant", "useDeleteTenant",
              "useDeleteTenantPermanent"} -> "tenants"
    [] b \in {"useCreateUser", "useUpdateUser", "useDeleteUser",
              "useDeleteUserPermanent", "useChangePassword"} -> "users"
    [] b \in {"useCreateClient", "useUpdateClient", "useDeleteClient"} -> "clients"
    [] b \in {"useEnableModule", "useDisableModule"} -> "modules"
    [] b \in {"useCreateProduct", "useUpdateProduct", "useDeleteProduct"} -> "products"

\* onSuccess of the tenant bindings: the keys handed to invalidateQueries, in order
TenantOnSuccess(b, id) ==
  CASE b = "useCreateTenant" -> << <<"tenants">> >>
    [] b = "useUpdateTenant" -> << <<"tenants">>, <<"tenants", id>> >>
    [] b = "useDeleteTenant" -> << <<"tenants">> >>
    [] b = "useDeleteTenantPermanent" -> << <<"tenants">> >>

\* a user update that forgets the item key
UserOnSuccessNoItem(b, id) ==
  IF b = "useChangePassword" THEN << >> ELSE << <<"users">> >>

\* onSuccess of the user bindings; useChangePassword has no onSuccess
UserOnSuccess(b, id) ==
  CASE b = "useCreateUser" -> << <<"users">> >>
    [] b = "useUpdateUser" -> << <<"users">>, <<"users", id>> >>
    [] b = "useDeleteUser" -> << <<"users">> >>
    [] b = "useDeleteUserPermanent" -> << <<"users">> >>
    [] b = "useChangePassword" -> << >>

\* a client deletion that forgets the statistics
ClientOnSuccessNoStats(b, id) ==
  CASE b = "useCreateClient" -> << <<"clients">>, <<"stats">> >>
    [] b = "useUpdateClient" -> << <<"clients">>, <<"clients", id>> >>
    [] b = "useDeleteClient" -> << <<"clients">> >>

\* onSuccess of the client bindings
ClientOnSuccess(b, id) ==
  CASE b = "useCreateClient" -> << <<"clients">>, <<"stats">> >>
    [] b = "useUpdateClient" -> << <<"clients">>, <<"clients", id>> >>
    [] b = "useDeleteClient" -> << <<"clients">>, <<"stats">> >>

\* a module binding without onSuccess
ModuleOnSuccessNone(b, id) == << >>

\* onSuccess of the module bindings
ModuleOnSuccess(b, id) ==
  CASE b = "useEnableModule" -> << <<"modules">> >>
    [] b = "useDisableModule" -> << <<"modules">> >>

\* a product update that also invalidates the statistics
ProductOnSuccessStats(b, id) ==
  CASE b = "useCreateProduct" -> << <<"products">>, <<"stats">> >>
    [] b = "useUpdateProduct" -> << <<"products">>, <<"products", id>>, <<"stats">> >>
    [] b = "useDeleteProduct" -> << <<"products">>, <<"stats">> >>

\* onSuccess of the product bindings
ProductOnSuccess(b, id) ==
  CASE b = "useCreateProduct" -> << <<"products">>, <<"stats">> >>
    [] b = "useUpdateProduct" -> << <<"products">>, <<"products", id>> >>
    [] b = "useDeleteProduct" -> << <<"products">>, <<"stats">> >>

\* onSuccess of a binding
onSuccess(b, id) ==
  CASE Resource(b) = "tenants" -> TenantOnSuccess(b, id)
    [] Resource(b) = "users" -> UserOnSuccess(b, id)
    [] Resource(b) = "clients" -> ClientOnSuccess(b, id)
    [] Resource(b) = "modules" -> ModuleOnSuccess(b, id)
    [] Resource(b) = "products" -> ProductOnSuccess(b, id)

\* a binding that invalidates when the call is issued, not when it resolves
MutationCallbacksAtMutate(b, id, phase) ==
  IF phase = "mutate" THEN onSuccess(b, id) ELSE << >>

\* the options object handed to useMutation has mutationFn and onSuccess only:
\* nothing runs when the call is issued ("mutate") or when it rejects ("error")
MutationCallbacks(b, id, phase) ==
  IF phase = "success" THEN onSuccess(b, id) ELSE << >>

(***************************************************************************)
(* The query cache.                                                        *)
(***************************************************************************)
\* partial key match: every element of the filter key equals the entry's
IsPrefix(p, k) ==
  /\ Len(p) <= Len(k)
  /\ \A i \in 1..Len(p) : p[i] = k[i]

\* queryClient.invalidateQueries({ queryKey }): matching entries become stale
invalidateQueries(c, queryKey) ==
  [k \in DOMAIN c |-> IF IsPrefix(queryKey, k) THEN "stale" ELSE c[k]]

RECURSIVE InvalidateAll(_, _)
InvalidateAll(c, keys) ==
  IF keys = << >> THEN c
  ELSE InvalidateAll(invalidateQueries(c, Head(keys)), Tail(keys))

Range(s) == {s[i] : i \in DOMAIN s}

(***************************************************************************)
(* Errors a remote call can reject with, and the message a dialog shows.   *)
(***************************************************************************)
None == "none"

\* a property whose value is undefined
Undefined == <<"undefined">>

\* kind "Error": an instance of Error; "string": a thrown string (its text);
\* "object": any other object. message and detail are None when absent.
Errors ==
  { [kind |-> "Error", text |-> None, message |-> "m", detail |-> None],
    [kind |-> "Error", text |-> None, message |-> "m", detail |-> "d"],
    [kind |-> "string", text |-> "s", message |-> None, detail |-> None],
    [kind |-> "object", text |-> None, message |-> "m", detail |-> "d"],
    [kind |-> "object", text |-> None, message |-> None, detail |-> "d"],
    [kind |-> "object", text |-> None, message |-> None, detail |-> None] }

\* the catch clause of ClientDialog.handleSubmit: the text of the error toast
ClientErrorMessage(error) ==
  IF error.kind = "Error" THEN error.message
  ELSE IF error.kind = "string" THEN error.text
  ELSE IF error.message # None THEN error.message
  ELSE IF error.detail # None THEN error.detail
  ELSE "Failed to save client. Please try again."

\* no error, and no toast
NoError == [kind |-> "none", text |-> None, message |-> None, detail |-> None]
NoToast == [variant |-> "none", title |-> None]

\* a binding that retries a failed call once
RetryOnce(b, failureCount) == failureCount < 2

\* no binding passes a retry option to useMutation: a failed call is not retried
ShouldRetry(b, failureCount) == FALSE

VARIABLES
  cache,        \* cached query results: query key -> "fresh" | "stale"
  pending,      \* mutation calls in flight: [binding, id, call, attempts]
  settled,      \* the call the last step settled, with its result; or NoCall
  invalidated,  \* keys the last step handed to invalidateQueries, in order
  cdOpen,       \* ClientDialog: the open prop
  cdClient,     \* ClientDialog: the id of the client prop, NoId for none
  cdCreate,     \* ClientDialog: state of createMutation
  cdUpdate,     \* ClientDialog: state of updateMutation
  cdLast,       \* ClientDialog: what the last step of handleSubmit did
  page,         \* the page the application shows: "tenants" or "clients"
  dtOpen,       \* DeleteTenantDialog: the open prop
  dtTenant,     \* DeleteTenantDialog: the id of the tenant prop, NoId for null
  dtMode,       \* DeleteTenantDialog: the mode prop
  isDeleting,   \* DeleteTenantDialog: useState(false)
  confirmText,  \* DeleteTenantDialog: useState("")
  dtCall,       \* DeleteTenantDialog: the call handleDelete awaits, 0 for none
  dcOpen,       \* DeleteClientDialog: the open prop
  dcClient,     \* DeleteClientDialog: the id of the client prop, NoId for null
  dcConfirmText, \* DeleteClientDialog: useState("")
  dcDelete,     \* DeleteClientDialog: state of deleteMutation
  delLast,      \* what the last step of a handleDelete did
  typedFor,     \* the record each confirmation text was typed for
  cfMode,       \* ClientForm: "unmounted", or the mode prop
  cfSeed,       \* ClientForm: the defaultValues prop, None for undefined
  cfValues,     \* ClientForm: the values of the form state
  cfLast,       \* ClientForm: what the last step of the form did
  pfMode,       \* ProductForm: "unmounted", or the mode prop
  pfSeed,       \* ProductForm: the defaultValues prop, None for undefined
  pfValues,     \* ProductForm: the values of the form state
  pfLast,       \* ProductForm: what the last step of the form did
  tfMode,       \* TenantForm: "unmounted", or the mode prop
  tfValues,     \* TenantForm: the values of the form state
  tfLast,       \* TenantForm / TenantDialog: what the last step did
  tfTenant,     \* TenantDialog: the id of the tenant prop, NoId for none
  tfSlugInput,  \* TenantForm: "none" while the user has typed no slug, else
                \* whether the slug typed last is the auto-derived one
  ufMode,       \* UserForm: "unmounted", or the mode prop
  ufProps,      \* UserForm: showTenantSelector, showRoleSelector, currentTenantId
  ufValues,     \* UserForm: the values of the form state
  ufLast,       \* UserForm: what the last step of the form did
  gsName,       \* generateSlug: the name it is called with
  gsSlug        \* generateSlug: its result, Undefined before the call

cacheVars == <<cache, pending, settled, invalidated>>
cdVars == <<cdOpen, cdClient, cdCreate, cdUpdate, cdLast>>
dtVars == <<dtOpen, dtTenant, dtMode, isDeleting, confirmText, dtCall>>
dcVars == <<dcOpen, dcClient, dcConfirmText, dcDelete>>
delVars == <<page, dtVars, dcVars, delLast, typedFor>>
cfVars == <<cfMode, cfSeed, cfValues, cfLast>>
pfVars == <<pfMode, pfSeed, pfValues, pfLast>>
tfVars == <<tfMode, tfValues, tfLast, tfSlugInput, tfTenant>>
ufVars == <<ufMode, ufProps, ufValues, ufLast>>
gsVars == <<gsName, gsSlug>>
formVars == <<cfVars, pfVars, tfVars, ufVars, gsVars>>
vars == <<cacheVars, cdVars, delVars, formVars>>

NoCall == [binding |-> "none", id |-> NoId, result |-> "none"]

\* a mutation observer that tracks no call
IdleMutation == [status |-> "idle", error |-> NoError, call |-> 0]

\* no handleSubmit step
NoSubmit ==
  [event |-> "none", binding |-> "none", id |-> NoId, error |-> NoError,
   caught |-> NoError, toast |-> NoToast, open |-> FALSE]

\* no handleDelete step
NoDelete ==
  [event |-> "none", dialog |-> "none", fn |-> "none", id |-> NoId,
   mode |-> "none", text |-> << >>, toast |-> NoToast]

\* no confirmation text was typed
NoneTyped == [tenant |-> NoId, client |-> NoId]

Live == Cardinality(DOMAIN cache) + Cardinality(pending)

\* a call number no call in flight uses
NewCall == CHOOSE n \in 1..MaxLive : \A m \in pending : m.call # n

\* the data-access layer with an empty cache and no call in flight
InitData ==
  /\ cache = << >>
  /\ pending = {}
  /\ settled = NoCall
  /\ invalidated = << >>

\* the dialogs as their pages mount them: closed, with their initial state
InitDialogs ==
  /\ cdOpen = FALSE
  /\ cdClient = NoId
  /\ cdCreate = IdleMutation
  /\ cdUpdate = IdleMutation
  /\ cdLast = NoSubmit
  /\ dtOpen = FALSE
  /\ dtTenant = NoId
  /\ dtMode = "deactivate"
  /\ isDeleting = FALSE
  /\ confirmText = << >>
  /\ dtCall = 0
  /\ dcOpen = FALSE
  /\ dcClient = NoId
  /\ dcConfirmText = << >>
  /\ dcDelete = IdleMutation
  /\ delLast = NoDelete
  /\ typedFor = NoneTyped

\* no form step
NoFormStep ==
  [event |-> "none", errors |-> {}, calls |-> 0, binding |-> None,
   id |-> NoId, payload |-> << >>]

\* an undefined defaultValues prop, and the values of a form not mounted
NoValues == [undefined |-> TRUE]

\* no form is mounted
InitForms ==
  /\ cfMode = "unmounted" /\ cfSeed = NoValues /\ cfValues = NoValues
  /\ cfLast = NoFormStep
  /\ pfMode = "unmounted" /\ pfSeed = NoValues /\ pfValues = NoValues
  /\ pfLast = NoFormStep
  /\ tfMode = "unmounted" /\ tfValues = NoValues /\ tfLast = NoFormStep
  /\ tfSlugInput = "none"
  /\ tfTenant = NoId
  /\ ufMode = "unmounted" /\ ufValues = NoValues /\ ufLast = NoFormStep
  /\ ufProps = NoValues

\* generateSlug has not been called
InitSlugIdle == gsName = << >> /\ gsSlug = Undefined

Init ==
  InitData /\ InitDialogs /\ InitForms /\ InitSlugIdle /\ page = "clients"

\* the application is loaded on the tenants page or on the clients page
InitDelete ==
  /\ InitData /\ InitDialogs /\ InitForms /\ InitSlugIdle
  /\ page \in {"tenants", "clients"}

(***************************************************************************)
(* The data-access layer.                                                  *)
(***************************************************************************)
\* a mounted, enabled query fetches and stores its result under its key
Fetch(q) ==
  /\ q.enabled
  /\ q.queryKey \notin DOMAIN cache
  /\ Live < MaxLive
  /\ cache' = [k \in DOMAIN cache \cup {q.queryKey} |->
                 IF k = q.queryKey THEN "fresh" ELSE cache[k]]
  /\ settled' = NoCall
  /\ invalidated' = << >>
  /\ UNCHANGED pending

\* a stale entry is read again and refetched
Refetch(k) ==
  /\ k \in DOMAIN cache
  /\ cache[k] = "stale"
  /\ cache' = [cache EXCEPT ![k] = "fresh"]
  /\ settled' = NoCall
  /\ invalidated' = << >>
  /\ UNCHANGED pending

\* an unused entry is garbage-collected
Evict(k) ==
  /\ k \in DOMAIN cache
  /\ cache' = [j \in DOMAIN cache \ {k} |-> cache[j]]
  /\ settled' = NoCall
  /\ invalidated' = << >>
  /\ UNCHANGED pending

\* mutate / mutateAsync: the binding issues its remote call
Mutate(b, id) ==
  /\ Live < MaxLive
  /\ pending' = pending \cup
       {[binding |-> b, id |-> id, call |-> NewCall, attempts |-> 1]}
  /\ cache' = InvalidateAll(cache, MutationCallbacks(b, id, "mutate"))
  /\ invalidated' = MutationCallbacks(b, id, "mutate")
  /\ settled' = NoCall

\* the remote call resolves: onSuccess runs
Resolve(m) ==
  /\ m \in pending
  /\ pending' = pending \ {m}
  /\ cache' = InvalidateAll(cache, MutationCallbacks(m.binding, m.id, "success"))
  /\ invalidated' = MutationCallbacks(m.binding, m.id, "success")
  /\ settled' = [binding |-> m.binding, id |-> m.id, result |-> "success"]

\* the remote call rejects: the call is issued again if the binding retries,
\* and otherwise the mutation fails
Reject(m) ==
  /\ m \in pending
  /\ IF ShouldRetry(m.binding, m.attempts)
     THEN /\ pending' = (pending \ {m}) \cup {[m EXCEPT !.attempts = @ + 1]}
          /\ UNCHANGED <<cache, settled, invalidated>>
     ELSE /\ pending' = pending \ {m}
          /\ cache' = InvalidateAll(cache, MutationCallbacks(m.binding, m.id, "error"))
          /\ invalidated' = MutationCallbacks(m.binding, m.id, "error")
          /\ settled' = [binding |-> m.binding, id |-> m.id, result |-> "error"]

Next ==
  \/ \E q \in Queries : Fetch(q) /\ UNCHANGED <<cdVars, delVars, formVars>>
  \/ \E k \in DOMAIN cache : Refetch(k) /\ UNCHANGED <<cdVars, delVars, formVars>>
  \/ \E k \in DOMAIN cache : Evict(k) /\ UNCHANGED <<cdVars, delVars, formVars>>
  \/ \E b \in UpdateBindings \cup DeleteBindings, id \in Ids :
       Mutate(b, id) /\ UNCHANGED <<cdVars, delVars, formVars>>
  \/ \E b \in CreateBindings : Mutate(b, NoId) /\ UNCHANGED <<cdVars, delVars, formVars>>
  \/ \E m \in pending : Resolve(m) /\ UNCHANGED <<cdVars, delVars, formVars>>
  \/ \E m \in pending : Reject(m) /\ UNCHANGED <<cdVars, delVars, formVars>>

Spec == Init /\ [][Next]_vars

TypeOK ==
  /\ DOMAIN cache \subseteq {q.queryKey : q \in Queries}
  /\ \A k \in DOMAIN cache : cache[k] \in {"fresh", "stale"}
  /\ \A m \in pending :
       /\ m.binding \in MutationBindings
       /\ m.id \in Ids \cup {NoId}
       /\ m.call \in 1..MaxLive
  /\ \A m, n \in pending : m.call = n.call => m = n

(***************************************************************************)
(* ClientDialog and ProductDialog: the create / edit dialog of a client on  *)
(* the clients page and of a product on the products page. The two         *)
(* components differ in their mutations and in the texts of their toasts.  *)
(***************************************************************************)
\* useCreateClient() / useUpdateClient(id) of ClientDialog, and
\* useCreateProduct() / useUpdateProduct(id) of ProductDialog
DialogBindings ==
  IF page = "products"
  THEN [create |-> "useCreateProduct", update |-> "useUpdateProduct"]
  ELSE [create |-> "useCreateClient", update |-> "useUpdateClient"]

\* the catch clause of ProductDialog.handleSubmit: the text of the error toast
ProductErrorMessage(error) ==
  IF error.kind = "Error" THEN error.message
  ELSE IF error.kind = "string" THEN error.text
  ELSE IF error.message # None THEN error.message
  ELSE IF error.detail # None THEN error.detail
  ELSE "Failed to save product. Please try again."

\* the title of the toast handleSubmit shows after its await resolved
DialogSuccessTitle(b) ==
  CASE b = "useUpdateClient" -> "Client updated"
    [] b = "useCreateClient" -> "Client created"
    [] b = "useUpdateProduct" -> "Product updated"
    [] b = "useCreateProduct" -> "Product created"

\* a dialog that never edits
cdIsEditNever == FALSE

\* const isEdit = !!client
cdIsEdit == cdClient # NoId

\* const isLoading = isEdit ? updateMutation.isPending : createMutation.isPending
cdIsLoading ==
  IF cdIsEdit THEN cdUpdate.status = "pending" ELSE cdCreate.status = "pending"

\* const mutationError = isEdit ? updateMutation.error : createMutation.error
mutationError == IF cdIsEdit THEN cdUpdate.error ELSE cdCreate.error

\* the queries behind the clients page and its statistics
ClientPageQueries ==
  {useClients, useDashboardStats, useTenants}
  \cup {useClient(id, NoOptions) : id \in Ids}

\* the queries behind the products page
ProductPageQueries == {useProducts} \cup {useProduct(id) : id \in Ids}

\* the queries of the page the dialog is on
DialogPageQueries ==
  IF page = "products" THEN ProductPageQueries ELSE ClientPageQueries

\* mutation.reset(): the observer lets go of its call and is idle again
reset(mutation) == IdleMutation

\* the result of a settled call as the observer that tracks it reports it
Observe(mutation, m, status, error) ==
  IF mutation.call = m.call
  THEN [status |-> status, error |-> error, call |-> 0]
  ELSE mutation

\* an effect that resets nothing
ResetEffectNever(open, mutation) == mutation

\* the effect "reset mutations when dialog closes", run after a render
ResetEffect(open, mutation) == IF ~open THEN reset(mutation) ELSE mutation

\* the parent opens the dialog, with a client to edit or with none
CdOpen(c) ==
  /\ ~cdOpen
  /\ cdOpen' = TRUE
  /\ cdClient' = c
  /\ cdLast' = NoSubmit
  /\ UNCHANGED <<cdCreate, cdUpdate, cache, pending, delVars, formVars>>
  /\ settled' = NoCall
  /\ invalidated' = << >>

\* a dialog whose closing cancels the remote calls its mutations track
CdCloseCancel ==
  /\ cdOpen
  /\ cdOpen' = FALSE
  /\ cdCreate' = ResetEffect(FALSE, cdCreate)
  /\ cdUpdate' = ResetEffect(FALSE, cdUpdate)
  /\ cdLast' = [NoSubmit EXCEPT !.event = "closed", !.error = mutationError]
  /\ pending' = {m \in pending : m.call \notin {cdCreate.call, cdUpdate.call}}
  /\ UNCHANGED <<cdClient, cache, delVars, formVars>>
  /\ settled' = NoCall
  /\ invalidated' = << >>

\* onOpenChange(false): the dialog closes, with the error message it showed,
\* and the effect resets both mutations; a call in flight is left alone
CdClose ==
  /\ cdOpen
  /\ cdOpen' = FALSE
  /\ cdCreate' = ResetEffect(FALSE, cdCreate)
  /\ cdUpdate' = ResetEffect(FALSE, cdUpdate)
  /\ cdLast' = [NoSubmit EXCEPT !.event = "closed", !.error = mutationError]
  /\ UNCHANGED <<cdClient, cache, pending, delVars, formVars>>
  /\ settled' = NoCall
  /\ invalidated' = << >>

\* handleSubmit up to its await: the submit button is enabled, and the create
\* or the update mutation is invoked
CdSubmit ==
  /\ cdOpen
  /\ ~cdIsLoading
  /\ LET b == IF cdIsEdit THEN DialogBindings.update ELSE DialogBindings.create
         started == [status |-> "pending", error |-> NoError, call |-> NewCall]
     IN /\ Mutate(b, cdClient)
        /\ cdCreate' = IF cdIsEdit THEN cdCreate ELSE started
        /\ cdUpdate' = IF cdIsEdit THEN started ELSE cdUpdate
        /\ cdLast' = [NoSubmit EXCEPT !.event = "submit", !.binding = b,
                                      !.id = cdClient]
  /\ UNCHANGED <<cdOpen, cdClient, delVars, formVars>>

\* handleSubmit after its await resolved: a toast, then onOpenChange(false)
CdResolve(m) ==
  /\ m.binding \in {DialogBindings.create, DialogBindings.update}
  /\ Resolve(m)
  /\ cdOpen' = FALSE
  /\ cdCreate' = ResetEffect(FALSE, Observe(cdCreate, m, "success", NoError))
  /\ cdUpdate' = ResetEffect(FALSE, Observe(cdUpdate, m, "success", NoError))
  /\ cdLast' = [NoSubmit EXCEPT
       !.event = "resolved", !.binding = m.binding, !.id = m.id,
       !.open = cdOpen,
       !.toast = [variant |-> "default", title |-> DialogSuccessTitle(m.binding)]]
  /\ UNCHANGED <<cdClient, delVars, formVars>>

\* the remote call rejects with error: unless the binding retries, mutateAsync
\* rejects with it and the catch clause of handleSubmit shows a toast
CdReject(m, error) ==
  /\ m.binding \in {DialogBindings.create, DialogBindings.update}
  /\ Reject(m)
  /\ IF ShouldRetry(m.binding, m.attempts)
     THEN /\ cdLast' = [NoSubmit EXCEPT
               !.event = "rejected", !.binding = m.binding, !.id = m.id,
               !.error = error]
          /\ UNCHANGED <<cdCreate, cdUpdate>>
     ELSE /\ cdCreate' = ResetEffect(cdOpen, Observe(cdCreate, m, "error", error))
          /\ cdUpdate' = ResetEffect(cdOpen, Observe(cdUpdate, m, "error", error))
          /\ cdLast' = [NoSubmit EXCEPT
               !.event = "rejected", !.binding = m.binding, !.id = m.id,
               !.error = error, !.caught = error, !.open = cdOpen,
               !.toast = [variant |-> "destructive",
                          title |-> IF page = "products"
                                    THEN ProductErrorMessage(error)
                                    ELSE ClientErrorMessage(error)]]
  /\ UNCHANGED <<cdOpen, cdClient, delVars, formVars>>

\* a step of a query of the clients page, which the dialog takes no part in
CdQuery(step) ==
  /\ step
  /\ cdLast' = NoSubmit
  /\ UNCHANGED <<cdOpen, cdClient, cdCreate, cdUpdate, delVars, formVars>>

NextClientDialog ==
  \/ \E c \in Ids \cup {NoId} : CdOpen(c)
  \/ CdClose
  \/ CdSubmit
  \/ \E m \in pending : CdResolve(m)
  \/ \E m \in pending, error \in Errors : CdReject(m, error)
  \/ \E q \in DialogPageQueries : CdQuery(Fetch(q))
  \/ \E k \in DOMAIN cache : CdQuery(Refetch(k))
  \/ \E k \in DOMAIN cache : CdQuery(Evict(k))

\* the application is loaded on the clients page or on the products page
InitDialog ==
  /\ InitData /\ InitDialogs /\ InitForms /\ InitSlugIdle
  /\ page \in {"clients", "products"}

SpecClientDialog == InitDialog /\ [][NextClientDialog]_vars

(***************************************************************************)
(* Texts typed into a confirmation input, and the records of the dialogs.  *)
(***************************************************************************)
\* a lower-case letter, its upper case, and white space
Chars == {"a", "A", " "}
Texts == UNION {[1..n -> Chars] : n \in 0..MaxText}

\* the literal "this client"
ThisClient == <<"this client">>

\* tenant.slug of the tenants of the page: one slug is a prefix of the other
TenantSlug(id) == IF id = "a" THEN <<"a">> ELSE <<"a", "a">>

\* client.display_name of the clients of the page: one of them is empty
ClientDisplayName(id) == IF id = "a" THEN <<"a">> ELSE << >>

RECURSIVE TrimEnd(_)
TrimEnd(s) ==
  IF s # << >> /\ s[Len(s)] = " " THEN TrimEnd(SubSeq(s, 1, Len(s) - 1)) ELSE s

\* a comparison that ignores white space after the text
SlugConfirmedTrimmed(text, slug) == TrimEnd(text) = slug

\* confirmText === tenant.slug
SlugConfirmed(text, slug) == text = slug

(***************************************************************************)
(* DeleteTenantDialog.                                                     *)
(***************************************************************************)
\* the dialog renders nothing unless it is open with a tenant
DtRendered == page = "tenants" /\ dtOpen /\ dtTenant # NoId

\* a dialog whose deactivate action also waits for the typed confirmation
DtActionDisabledAlwaysConfirm(mode) ==
  isDeleting \/ ~SlugConfirmed(confirmText, TenantSlug(dtTenant))

\* the disabled attribute of the AlertDialogAction of each mode
DtActionDisabled(mode) ==
  IF mode = "permanent"
  THEN isDeleting \/ ~SlugConfirmed(confirmText, TenantSlug(dtTenant))
  ELSE isDeleting

\* the mutation handleDelete invokes in each mode
DtMutation(mode) ==
  IF mode = "permanent" THEN "useDeleteTenantPermanent" ELSE "useDeleteTenant"

\* the parent shows the dialog for a tenant, or with none, in a mode
DtShow(t, mode) ==
  /\ page = "tenants"
  /\ ~dtOpen
  /\ dtOpen' = TRUE
  /\ dtTenant' = t
  /\ dtMode' = mode
  /\ delLast' = NoDelete
  /\ settled' = NoCall
  /\ invalidated' = << >>
  /\ UNCHANGED <<isDeleting, confirmText, dtCall, dcVars, page, cache, pending, cdVars, formVars>>
  /\ UNCHANGED typedFor

\* the parent sets open to false itself
DtParentClose ==
  /\ page = "tenants"
  /\ dtOpen
  /\ dtOpen' = FALSE
  /\ delLast' = NoDelete
  /\ settled' = NoCall
  /\ invalidated' = << >>
  /\ UNCHANGED <<dtTenant, dtMode, isDeleting, confirmText, dtCall, dcVars, page,
                 cache, pending, cdVars, formVars>>
  /\ UNCHANGED typedFor

\* onChange of the confirmation input, which permanent mode renders
DtType(text) ==
  /\ DtRendered
  /\ dtMode = "permanent"
  /\ ~isDeleting
  /\ confirmText' = text
  /\ delLast' = NoDelete
  /\ settled' = NoCall
  /\ invalidated' = << >>
  /\ UNCHANGED <<dtOpen, dtTenant, dtMode, isDeleting, dtCall, dcVars, page,
                 cache, pending, cdVars, formVars>>
  /\ typedFor' = [typedFor EXCEPT !.tenant = dtTenant]

\* handleOpenChange(false): the dialog is dismissed
DtHandleOpenChange ==
  /\ DtRendered
  /\ confirmText' = << >>
  /\ dtOpen' = FALSE
  /\ delLast' = NoDelete
  /\ settled' = NoCall
  /\ invalidated' = << >>
  /\ UNCHANGED <<dtTenant, dtMode, isDeleting, dtCall, dcVars, page, cache,
                 pending, cdVars, formVars>>
  /\ typedFor' = [typedFor EXCEPT !.tenant = NoId]

\* a click on the enabled action: handleDelete up to its await
DtHandleDelete ==
  /\ DtRendered
  /\ ~DtActionDisabled(dtMode)
  /\ ~(dtMode = "permanent" /\ ~SlugConfirmed(confirmText, TenantSlug(dtTenant)))
  /\ Mutate(DtMutation(dtMode), dtTenant)
  /\ isDeleting' = TRUE
  /\ dtCall' = NewCall
  /\ delLast' = [NoDelete EXCEPT
       !.event = "issued", !.dialog = "DeleteTenantDialog",
       !.fn = mutationFn(DtMutation(dtMode)), !.id = dtTenant,
       !.mode = dtMode, !.text = confirmText]
  /\ UNCHANGED <<dtOpen, dtTenant, dtMode, confirmText, dcVars, page, cdVars, formVars>>
  /\ UNCHANGED typedFor

\* handleDelete after its await resolved
DtResolve(m) ==
  /\ page = "tenants"
  /\ m.call = dtCall
  /\ Resolve(m)
  /\ dtOpen' = FALSE
  /\ confirmText' = << >>
  /\ isDeleting' = FALSE
  /\ dtCall' = 0
  /\ delLast' = [NoDelete EXCEPT
       !.event = "resolved", !.dialog = "DeleteTenantDialog",
       !.fn = mutationFn(m.binding), !.id = m.id]
  /\ UNCHANGED <<dtTenant, dtMode, dcVars, page, cdVars, formVars>>
  /\ typedFor' = [typedFor EXCEPT !.tenant = NoId]

\* handleDelete after its await rejected: the error is logged
DtReject(m, error) ==
  /\ page = "tenants"
  /\ m.call = dtCall
  /\ Reject(m)
  /\ IF ShouldRetry(m.binding, m.attempts)
     THEN UNCHANGED <<isDeleting, dtCall>>
     ELSE isDeleting' = FALSE /\ dtCall' = 0
  /\ delLast' = [NoDelete EXCEPT
       !.event = "rejected", !.dialog = "DeleteTenantDialog",
       !.fn = mutationFn(m.binding), !.id = m.id]
  /\ UNCHANGED <<dtOpen, dtTenant, dtMode, confirmText, dcVars, page, cdVars, formVars>>
  /\ UNCHANGED typedFor

(***************************************************************************)
(* DeleteClientDialog.                                                     *)
(***************************************************************************)
\* const displayName = client?.display_name || "this client"
displayName ==
  IF dcClient = NoId \/ ClientDisplayName(dcClient) = << >>
  THEN ThisClient
  ELSE ClientDisplayName(dcClient)

\* const isConfirmed = confirmText === displayName
isConfirmed == dcConfirmText = displayName

\* the catch clause of DeleteClientDialog.handleDelete
DeleteClientErrorMessage(error) ==
  IF error.message # None
  THEN error.message
  ELSE "Failed to delete client. Please try again."

DcRendered == page = "clients" /\ dcOpen

\* the parent shows the dialog for a client, or with none
DcShow(c) ==
  /\ page = "clients"
  /\ ~dcOpen
  /\ dcOpen' = TRUE
  /\ dcClient' = c
  /\ delLast' = NoDelete
  /\ settled' = NoCall
  /\ invalidated' = << >>
  /\ UNCHANGED <<dcConfirmText, dcDelete, dtVars, page, cache, pending, cdVars, formVars>>
  /\ UNCHANGED typedFor

\* the parent sets open to false itself
DcParentClose ==
  /\ page = "clients"
  /\ dcOpen
  /\ dcOpen' = FALSE
  /\ delLast' = NoDelete
  /\ settled' = NoCall
  /\ invalidated' = << >>
  /\ UNCHANGED <<dcClient, dcConfirmText, dcDelete, dtVars, page, cache, pending,
                 cdVars, formVars>>
  /\ UNCHANGED typedFor

\* onChange of the confirmation input
DcType(text) ==
  /\ DcRendered
  /\ dcConfirmText' = text
  /\ delLast' = NoDelete
  /\ settled' = NoCall
  /\ invalidated' = << >>
  /\ UNCHANGED <<dcOpen, dcClient, dcDelete, dtVars, page, cache, pending, cdVars, formVars>>
  /\ typedFor' = [typedFor EXCEPT !.client = dcClient]

\* handleOpenChange(false): the dialog is dismissed
DcHandleOpenChange ==
  /\ DcRendered
  /\ dcConfirmText' = << >>
  /\ dcOpen' = FALSE
  /\ delLast' = NoDelete
  /\ settled' = NoCall
  /\ invalidated' = << >>
  /\ UNCHANGED <<dcClient, dcDelete, dtVars, page, cache, pending, cdVars, formVars>>
  /\ typedFor' = [typedFor EXCEPT !.client = NoId]

\* a click on the enabled action: handleDelete up to its await
DcHandleDelete ==
  /\ DcRendered
  /\ isConfirmed
  /\ dcDelete.status # "pending"
  /\ dcClient # NoId
  /\ Mutate("useDeleteClient", dcClient)
  /\ dcDelete' = [status |-> "pending", error |-> NoError, call |-> NewCall]
  /\ delLast' = [NoDelete EXCEPT
       !.event = "issued", !.dialog = "DeleteClientDialog",
       !.fn = mutationFn("useDeleteClient"), !.id = dcClient,
       !.text = dcConfirmText]
  /\ UNCHANGED <<dcOpen, dcClient, dcConfirmText, dtVars, page, cdVars, formVars>>
  /\ UNCHANGED typedFor

\* handleDelete after its await resolved: a toast, then the dialog closes
DcResolve(m) ==
  /\ page = "clients"
  /\ m.call = dcDelete.call
  /\ Resolve(m)
  /\ dcOpen' = FALSE
  /\ dcConfirmText' = << >>
  /\ dcDelete' = Observe(dcDelete, m, "success", NoError)
  /\ delLast' = [NoDelete EXCEPT
       !.event = "resolved", !.dialog = "DeleteClientDialog",
       !.fn = mutationFn(m.binding), !.id = m.id,
       !.toast = [variant |-> "default", title |-> "Client deleted"]]
  /\ UNCHANGED <<dcClient, dtVars, page, cdVars, formVars>>
  /\ typedFor' = [typedFor EXCEPT !.client = NoId]

\* handleDelete after its await rejected: an error toast
DcReject(m, error) ==
  /\ page = "clients"
  /\ m.call = dcDelete.call
  /\ Reject(m)
  /\ IF ShouldRetry(m.binding, m.attempts)
     THEN /\ UNCHANGED dcDelete
          /\ delLast' = [NoDelete EXCEPT
               !.event = "rejected", !.dialog = "DeleteClientDialog",
               !.fn = mutationFn(m.binding), !.id = m.id]
     ELSE /\ dcDelete' = Observe(dcDelete, m, "error", error)
          /\ delLast' = [NoDelete EXCEPT
               !.event = "rejected", !.dialog = "DeleteClientDialog",
               !.fn = mutationFn(m.binding), !.id = m.id,
               !.toast = [variant |-> "destructive",
                          title |-> DeleteClientErrorMessage(error)]]
  /\ UNCHANGED <<dcOpen, dcClient, dcConfirmText, dtVars, page, cdVars, formVars>>
  /\ UNCHANGED typedFor

NextDelete ==
  \/ \E t \in Ids \cup {NoId}, mode \in {"deactivate", "permanent"} : DtShow(t, mode)
  \/ DtParentClose
  \/ \E text \in Texts : DtType(text)
  \/ DtHandleOpenChange
  \/ DtHandleDelete
  \/ \E m \in pending : DtResolve(m)
  \/ \E m \in pending, error \in Errors : DtReject(m, error)
  \/ \E c \in Ids \cup {NoId} : DcShow(c)
  \/ DcParentClose
  \/ \E text \in Texts \cup {ThisClient} : DcType(text)
  \/ DcHandleOpenChange
  \/ DcHandleDelete
  \/ \E m \in pending : DcResolve(m)
  \/ \E m \in pending, error \in Errors : DcReject(m, error)

SpecDelete == InitDelete /\ [][NextDelete]_vars

(***************************************************************************)
(* Texts typed into the fields of a form.                                  *)
(***************************************************************************)
\* texts of a letter and white space
FieldTexts == UNION {[1..n -> {"a", " "}] : n \in 0..MaxField}

RECURSIVE TrimStart(_)
TrimStart(s) ==
  IF s # << >> /\ s[1] = " " THEN TrimStart(SubSeq(s, 2, Len(s))) ELSE s

\* String.prototype.trim
trim(s) == TrimEnd(TrimStart(s))

\* the characters of s that are not white space, in order
RECURSIVE Squeeze(_)
Squeeze(s) ==
  IF s = << >> THEN << >>
  ELSE IF s[1] = " " THEN Squeeze(SubSeq(s, 2, Len(s)))
  ELSE <<s[1]>> \o Squeeze(SubSeq(s, 2, Len(s)))

\* texts typed into the e-mail input: empty, an address, and an address
\* after white space, which is no address
AnEmail == <<"a", "@", "a", ".", "a", "a">>
EmailTexts == {<< >>, AnEmail, <<" ">> \o AnEmail}

\* z.string().email(): local part, "@", domain label, ".", top-level label of
\* two letters or more; letters only in this alphabet
IsEmail(s) ==
  \E i, j \in 1..Len(s) :
    /\ 1 < i /\ i + 1 < j /\ j + 2 <= Len(s)
    /\ s[i] = "@" /\ s[j] = "."
    /\ \A k \in (1..Len(s)) \ {i, j} : s[k] = "a"

\* texts typed into the extra_data textarea: JSON texts of numbers and arrays,
\* texts that are no JSON, and blank texts
JsonTexts == {<< >>, <<" ">>, <<" ", "1">>, <<"[", " ", "]">>, <<"1", " ", "1">>}

\* the text is a JSON text: a number of digits 1, or an array of at most one
\* JSON text, with white space allowed around each
RECURSIVE IsJson(_)
IsJson(s) ==
  LET t == trim(s)
  IN \/ t # << >> /\ \A k \in 1..Len(t) : t[k] = "1"
     \/ /\ Len(t) >= 2
        /\ t[1] = "["
        /\ t[Len(t)] = "]"
        /\ LET inner == SubSeq(t, 2, Len(t) - 1)
           IN trim(inner) = << >> \/ IsJson(inner)

\* JSON.parse: the value of a JSON text, written without white space; it
\* throws for any other text
JSONParse(s) ==
  IF IsJson(s) THEN [ok |-> TRUE, value |-> Squeeze(s)]
  ELSE [ok |-> FALSE, value |-> << >>]

(***************************************************************************)
(* ClientForm: the form of ClientDialog.                                   *)
(***************************************************************************)
clientTypes == {"individual", "entity", "trust"}

\* the fields handleSubmit trims
ClientTextFields == {"first_name", "last_name", "entity_name", "email", "phone"}

\* the defaultValues of useForm when no defaultValues prop is given
ClientFormDefaults(mode) ==
  [client_type |-> "individual", first_name |-> << >>, last_name |-> << >>,
   entity_name |-> << >>, email |-> << >>, phone |-> << >>,
   risk_profile |-> None,
   kyc_status |-> IF mode = "create" THEN "pending" ELSE None,
   extra_data |-> << >>]

\* the defaultValues ClientDialog prepares from the client it edits
SeedClients ==
  { [ClientFormDefaults("edit") EXCEPT
       !.first_name = <<"a">>, !.last_name = <<"a">>, !.kyc_status = "approved",
       !.extra_data = <<"1">>],
    [ClientFormDefaults("edit") EXCEPT
       !.client_type = "entity", !.entity_name = <<"a">>,
       !.first_name = <<"a">>, !.risk_profile = "balanced"],
    [ClientFormDefaults("edit") EXCEPT
       !.client_type = "trust", !.entity_name = <<"a", " ">>,
       !.phone = <<"a">>] }

\* a schema whose cross-field error is attached to the name fields
clientSchemaNamePaths(data) ==
  (IF data.email = << >> \/ IsEmail(data.email) THEN {} ELSE {"email"})
  \cup (IF data.client_type = "individual"
        THEN (IF data.first_name = << >> THEN {"first_name"} ELSE {})
             \cup (IF data.last_name = << >> THEN {"last_name"} ELSE {})
        ELSE IF data.entity_name = << >> THEN {"entity_name"} ELSE {})

\* clientSchema: the paths of the issues of a parse of the form values
clientSchema(data) ==
  (IF data.email = << >> \/ IsEmail(data.email) THEN {} ELSE {"email"})
  \cup (IF IF data.client_type = "individual"
           THEN data.first_name # << >> /\ data.last_name # << >>
           ELSE data.entity_name # << >>
        THEN {} ELSE {"client_type"})

\* an effect that leaves the name fields as they are
ClientTypeEffectKeep(mode, values) == values

\* the effect "reset name fields when client type changes"
ClientTypeEffect(mode, values) ==
  IF mode = "create"
  THEN IF values.client_type = "individual"
       THEN [values EXCEPT !.entity_name = << >>]
       ELSE [values EXCEPT !.first_name = << >>, !.last_name = << >>]
  ELSE values

\* extra_data handed on as the text that was typed when it is no JSON text
ParseExtraDataRaw(text) ==
  IF trim(text) = << >> THEN [ok |-> FALSE, value |-> << >>]
  ELSE IF JSONParse(text).ok THEN JSONParse(text) ELSE [ok |-> TRUE, value |-> text]

\* handleSubmit, extra_data: the parsed value of a text that is not blank; no
\* value when the text is blank or JSON.parse throws
ParseExtraData(text) ==
  IF trim(text) = << >> THEN [ok |-> FALSE, value |-> << >>]
  ELSE JSONParse(text)

\* a handleSubmit that hands the text fields on as they were typed
ClientSubmitDataUntrimmed(data) ==
  LET present ==
        {"client_type"}
        \cup {f \in ClientTextFields : data[f] # << >>}
        \cup {f \in {"risk_profile", "kyc_status"} : data[f] # None}
        \cup {f \in {"extra_data"} : ParseExtraData(data[f]).ok}
  IN [f \in present |->
        IF f = "extra_data" THEN ParseExtraData(data[f]).value ELSE data[f]]

\* handleSubmit: the submitData handed to onSubmit
ClientSubmitData(data) ==
  LET present ==
        {"client_type"}
        \cup {f \in ClientTextFields : trim(data[f]) # << >>}
        \cup {f \in {"risk_profile", "kyc_status"} : data[f] # None}
        \cup {f \in {"extra_data"} : ParseExtraData(data[f]).ok}
  IN [f \in present |->
        IF f \in ClientTextFields THEN trim(data[f])
        ELSE IF f = "extra_data" THEN ParseExtraData(data[f]).value
        ELSE data[f]]

\* the inputs the form renders for the current client_type, and the texts
\* each takes
ClientInputs ==
  [first_name |-> IF cfValues.client_type = "individual" THEN FieldTexts ELSE {},
   last_name |-> IF cfValues.client_type = "individual" THEN FieldTexts ELSE {},
   entity_name |-> IF cfValues.client_type = "individual" THEN {} ELSE FieldTexts,
   email |-> EmailTexts,
   phone |-> {<< >>, <<" ", "a">>},
   extra_data |-> JsonTexts]

\* the options of the selects of the form other than client_type; the select
\* of risk_profile has an empty option
ClientSelects ==
  [risk_profile |-> {None, "balanced"}, kyc_status |-> {"pending", "approved"}]

\* ClientDialog renders the form: in create mode without defaultValues, in
\* edit mode with those of the client; the effects of the first render run
CfMount(seed) ==
  /\ cfMode = "unmounted"
  /\ LET mode == IF seed = NoValues THEN "create" ELSE "edit"
     IN /\ cfMode' = mode
        /\ cfValues' = ClientTypeEffect(mode,
             IF seed = NoValues THEN ClientFormDefaults(mode) ELSE seed)
  /\ cfSeed' = seed
  /\ cfLast' = [NoFormStep EXCEPT !.event = "mount"]

\* the dialog closes and its content is unmounted
CfUnmount ==
  /\ cfMode # "unmounted"
  /\ cfMode' = "unmounted"
  /\ cfSeed' = NoValues
  /\ cfValues' = NoValues
  /\ cfLast' = NoFormStep

\* the user selects a client type: the select is disabled in edit mode, and
\* the effect on clientType runs after the render
CfSelectType(t) ==
  /\ cfMode = "create"
  /\ t # cfValues.client_type
  /\ cfValues' = ClientTypeEffect(cfMode, [cfValues EXCEPT !.client_type = t])
  /\ cfLast' = [NoFormStep EXCEPT !.event = "type"]
  /\ UNCHANGED <<cfMode, cfSeed>>

\* the user changes the value of a rendered input, or selects an option
CfInput(f, v) ==
  /\ cfMode # "unmounted"
  /\ IF f \in DOMAIN ClientSelects THEN v \in ClientSelects[f]
                                   ELSE v \in ClientInputs[f]
  /\ v # cfValues[f]
  /\ cfValues' = [cfValues EXCEPT ![f] = v]
  /\ cfLast' = [NoFormStep EXCEPT !.event = "input"]
  /\ UNCHANGED <<cfMode, cfSeed>>

\* ClientDialog renders again with the same client: defaultValues is a new
\* object, and in edit mode the effect on defaultValues resets the form
CfParentRender ==
  /\ cfMode # "unmounted"
  /\ cfValues' = IF cfSeed # NoValues /\ cfMode = "edit" THEN cfSeed ELSE cfValues
  /\ cfLast' = [NoFormStep EXCEPT !.event = "render"]
  /\ UNCHANGED <<cfMode, cfSeed>>

\* the form is submitted: form.handleSubmit validates, and calls handleSubmit,
\* which calls onSubmit, only when there is no issue
CfSubmit ==
  /\ cfMode # "unmounted"
  /\ LET errors == clientSchema(cfValues)
     IN cfLast' =
          IF errors # {}
          THEN [NoFormStep EXCEPT !.event = "invalid", !.errors = errors]
          ELSE [NoFormStep EXCEPT !.event = "submitted", !.calls = 1,
                                  !.payload = ClientSubmitData(cfValues)]
  /\ UNCHANGED <<cfMode, cfSeed, cfValues>>

NextClientForm ==
  \/ \E seed \in SeedClients \cup {NoValues} :
       CfMount(seed) /\ UNCHANGED <<cacheVars, cdVars, delVars, gsVars, pfVars, tfVars, ufVars>>
  \/ CfUnmount /\ UNCHANGED <<cacheVars, cdVars, delVars, gsVars, pfVars, tfVars, ufVars>>
  \/ \E t \in clientTypes :
       CfSelectType(t) /\ UNCHANGED <<cacheVars, cdVars, delVars, gsVars, pfVars, tfVars, ufVars>>
  \/ \E f \in ClientTextFields \cup {"extra_data"},
        v \in FieldTexts \cup EmailTexts \cup JsonTexts :
       CfInput(f, v) /\ UNCHANGED <<cacheVars, cdVars, delVars, gsVars, pfVars, tfVars, ufVars>>
  \/ \E f \in DOMAIN ClientSelects, v \in {None, "balanced", "pending", "approved"} :
       CfInput(f, v) /\ UNCHANGED <<cacheVars, cdVars, delVars, gsVars, pfVars, tfVars, ufVars>>
  \/ CfParentRender /\ UNCHANGED <<cacheVars, cdVars, delVars, gsVars, pfVars, tfVars, ufVars>>
  \/ CfSubmit /\ UNCHANGED <<cacheVars, cdVars, delVars, gsVars, pfVars, tfVars, ufVars>>

SpecClientForm == Init /\ [][NextClientForm]_vars

(***************************************************************************)
(* ProductForm: the form of ProductDialog.                                 *)
(***************************************************************************)
\* texts typed into the code input: too short, well-formed, with an upper-case
\* letter, and with white space
CodeTexts == {<< >>, <<"a">>, <<"a", "_">>, <<"a", "A">>, <<"a", " ">>}

\* code: min(2) and /^[a-z0-9_]+$/ (max(50) is beyond the texts typed here)
IsCode(s) == Len(s) >= 2 /\ \A k \in 1..Len(s) : s[k] \in {"a", "1", "_"}

\* the fields handleSubmit trims: name and category always, the others when
\* their trimmed value is not empty (description_zh and expected_return are
\* handled by the statements that handle name_zh and description)
ProductRequiredTexts == {"name", "category"}
ProductOptionalTexts == {"name_zh", "description"}

\* the defaultValues of useForm when no defaultValues prop is given
ProductFormDefaults ==
  [module_id |-> NoId, code |-> << >>, name |-> << >>, name_zh |-> << >>,
   description |-> << >>, category |-> << >>, category_id |-> NoId,
   risk_level |-> "balanced", min_investment |-> 0, currency |-> "USD"]

\* the defaultValues ProductDialog prepares from the product it edits
SeedProducts ==
  { [ProductFormDefaults EXCEPT
       !.module_id = "a", !.code = <<"a", "_">>, !.name = <<"a">>,
       !.category = <<"a">>, !.category_id = "b", !.name_zh = <<"a", " ">>],
    [ProductFormDefaults EXCEPT
       !.module_id = "b", !.code = <<"a", "1">>, !.name = <<" ", "a">>,
       !.category = <<"a">>, !.risk_level = "growth", !.min_investment = 1] }

\* productSchema: the paths of the issues of a parse of the form values
productSchema(data) ==
  (IF data.module_id = NoId THEN {"module_id"} ELSE {})
  \cup (IF IsCode(data.code) THEN {} ELSE {"code"})
  \cup (IF Len(data.name) >= 1 THEN {} ELSE {"name"})
  \cup (IF Len(data.category) >= 1 THEN {} ELSE {"category"})

\* a handleSubmit that hands name_zh and description on as they were typed
ProductSubmitDataUntrimmed(data) ==
  LET present ==
        {"module_id", "code", "name", "category", "risk_level",
         "min_investment", "currency"}
        \cup {f \in ProductOptionalTexts : data[f] # << >>}
        \cup {f \in {"category_id"} : data[f] # NoId}
  IN [f \in present |->
        IF f \in ProductRequiredTexts THEN trim(data[f]) ELSE data[f]]

\* handleSubmit: the submitData handed to onSubmit
ProductSubmitData(data) ==
  LET present ==
        {"module_id", "code", "name", "category", "risk_level",
         "min_investment", "currency"}
        \cup {f \in ProductOptionalTexts : trim(data[f]) # << >>}
        \cup {f \in {"category_id"} : data[f] # NoId}
  IN [f \in present |->
        IF f \in ProductRequiredTexts \cup ProductOptionalTexts
        THEN trim(data[f]) ELSE data[f]]

\* the inputs of the form that take a text, and the texts each takes
ProductInputs ==
  [code |-> CodeTexts,
   name |-> FieldTexts,
   name_zh |-> {<< >>, <<" ">>, <<"a", " ">>},
   description |-> {<< >>, <<" ", "a">>},
   category |-> {<< >>, <<"a">>, <<"_", "_", "c", "u", "s", "t", "o", "m", "_", "_">>}]

\* the options of the selects of the form
ProductSelects ==
  [module_id |-> Ids, risk_level |-> {"balanced", "growth"}]

\* a form whose module select and code input stay enabled in edit mode
ProductFieldDisabledNever(mode, f) == FALSE

\* disabled={mode === "edit"} of the module select and of the code input
ProductFieldDisabled(mode, f) == mode = "edit" /\ f \in {"module_id", "code"}

\* ProductDialog renders the form: in create mode without defaultValues, in
\* edit mode with those of the product
PfMount(seed) ==
  /\ pfMode = "unmounted"
  /\ pfMode' = IF seed = NoValues THEN "create" ELSE "edit"
  /\ pfValues' = IF seed = NoValues THEN ProductFormDefaults ELSE seed
  /\ pfSeed' = seed
  /\ pfLast' = [NoFormStep EXCEPT !.event = "mount"]

\* the dialog closes and its content is unmounted
PfUnmount ==
  /\ pfMode # "unmounted"
  /\ pfMode' = "unmounted"
  /\ pfSeed' = NoValues
  /\ pfValues' = NoValues
  /\ pfLast' = NoFormStep

\* the user changes the value of an enabled input, or selects an option
PfInput(f, v) ==
  /\ pfMode # "unmounted"
  /\ ~ProductFieldDisabled(pfMode, f)
  /\ IF f \in DOMAIN ProductSelects THEN v \in ProductSelects[f]
                                    ELSE v \in ProductInputs[f]
  /\ v # pfValues[f]
  /\ pfValues' = [pfValues EXCEPT ![f] = v]
  /\ pfLast' = [NoFormStep EXCEPT !.event = "input"]
  /\ UNCHANGED <<pfMode, pfSeed>>

\* ProductDialog renders again with the same product: defaultValues is a new
\* object, and in edit mode the effect on defaultValues resets the form
PfParentRender ==
  /\ pfMode # "unmounted"
  /\ pfValues' = IF pfSeed # NoValues /\ pfMode = "edit" THEN pfSeed ELSE pfValues
  /\ pfLast' = [NoFormStep EXCEPT !.event = "render"]
  /\ UNCHANGED <<pfMode, pfSeed>>

\* the form is submitted: form.handleSubmit validates, and calls handleSubmit,
\* which calls onSubmit, only when there is no issue
PfSubmit ==
  /\ pfMode # "unmounted"
  /\ LET errors == productSchema(pfValues)
     IN pfLast' =
          IF errors # {}
          THEN [NoFormStep EXCEPT !.event = "invalid", !.errors = errors]
          ELSE [NoFormStep EXCEPT !.event = "submitted", !.calls = 1,
                                  !.payload = ProductSubmitData(pfValues)]
  /\ UNCHANGED <<pfMode, pfSeed, pfValues>>

NextProductForm ==
  \/ \E seed \in SeedProducts \cup {NoValues} :
       PfMount(seed) /\ UNCHANGED <<cacheVars, cdVars, delVars, gsVars, cfVars, tfVars, ufVars>>
  \/ PfUnmount /\ UNCHANGED <<cacheVars, cdVars, delVars, gsVars, cfVars, tfVars, ufVars>>
  \/ \E f \in {"code", "name", "name_zh", "description", "category"},
        v \in CodeTexts \cup FieldTexts \cup ProductInputs.category :
       PfInput(f, v) /\ UNCHANGED <<cacheVars, cdVars, delVars, gsVars, cfVars, tfVars, ufVars>>
  \/ \E f \in DOMAIN ProductSelects, v \in Ids \cup {"balanced", "growth"} :
       PfInput(f, v) /\ UNCHANGED <<cacheVars, cdVars, delVars, gsVars, cfVars, tfVars, ufVars>>
  \/ PfParentRender /\ UNCHANGED <<cacheVars, cdVars, delVars, gsVars, cfVars, tfVars, ufVars>>
  \/ PfSubmit /\ UNCHANGED <<cacheVars, cdVars, delVars, gsVars, cfVars, tfVars, ufVars>>

SpecProductForm == Init /\ [][NextProductForm]_vars

(***************************************************************************)
(* TenantForm and TenantDialog.                                            *)
(***************************************************************************)
\* texts typed into the name input: a lower-case and an upper-case letter,
\* white space, a hyphen, and a character generateSlug removes
NameChars == {"a", "A", " ", "-", "!"}
NameTexts == UNION {[1..n -> NameChars] : n \in 0..MaxField}

\* texts typed into the slug input
SlugTexts == UNION {[1..n -> {"a", "A", "-"}] : n \in 0..MaxField}

\* String.prototype.toLowerCase
RECURSIVE toLowerCase(_)
toLowerCase(s) ==
  IF s = << >> THEN << >>
  ELSE <<IF s[1] = "A" THEN "a" ELSE s[1]>> \o toLowerCase(SubSeq(s, 2, Len(s)))

\* replace(/[^a-z0-9\s-]/g, ""): the characters of s that are in keep
RECURSIVE Filter(_, _)
Filter(s, keep) ==
  IF s = << >> THEN << >>
  ELSE (IF s[1] \in keep THEN <<s[1]>> ELSE << >>)
       \o Filter(SubSeq(s, 2, Len(s)), keep)

\* replace(/\s+/g, "-") and replace(/-+/g, "-"): every maximal run of
\* characters of run becomes one hyphen
RECURSIVE ReplaceRuns(_, _)
ReplaceRuns(s, run) ==
  IF s = << >> THEN << >>
  ELSE IF s[1] \in run
       THEN IF Len(s) >= 2 /\ s[2] \in run
            THEN ReplaceRuns(SubSeq(s, 2, Len(s)), run)
            ELSE <<"-">> \o ReplaceRuns(SubSeq(s, 2, Len(s)), run)
       ELSE <<s[1]>> \o ReplaceRuns(SubSeq(s, 2, Len(s)), run)

\* a generateSlug that leaves runs of hyphens as they are
generateSlugKeepRuns(name) ==
  trim(ReplaceRuns(Filter(toLowerCase(name), {"a", "1", " ", "-"}), {" "}))

\* generateSlug
generateSlug(name) ==
  trim(ReplaceRuns(ReplaceRuns(Filter(toLowerCase(name), {"a", "1", " ", "-"}),
                               {" "}),
                   {"-"}))

\* names generateSlug is called with: the characters of the name input and
\* a digit
SlugNames == UNION {[1..n -> NameChars \cup {"1"}] : n \in 0..MaxName}

\* the defaultValues of useForm when no defaultValues prop is given
TenantFormDefaults ==
  [name |-> << >>, slug |-> << >>, contact_email |-> << >>,
   contact_phone |-> << >>, is_active |-> TRUE]

\* the defaultValues TenantDialog prepares from the tenant it edits
SeedTenants ==
  { [TenantFormDefaults EXCEPT !.name = <<"A", "a">>, !.slug = <<"a", "a">>],
    [TenantFormDefaults EXCEPT !.name = <<"a", "-">>, !.slug = <<"a", "-">>,
       !.contact_email = AnEmail, !.is_active = FALSE] }

\* the id of the tenant TenantDialog took the defaultValues from
TenantIdOf(seed) ==
  IF seed = NoValues THEN NoId ELSE IF seed.is_active THEN "a" ELSE "b"

\* tenantFormSchema: the paths of the issues of a parse of the form values
\* (the max lengths are beyond the texts typed here)
tenantFormSchema(data) ==
  (IF Len(data.name) >= 2 THEN {} ELSE {"name"})
  \cup (IF /\ Len(data.slug) >= 2
           /\ \A k \in 1..Len(data.slug) : data.slug[k] \in {"a", "1", "-"}
        THEN {} ELSE {"slug"})
  \cup (IF data.contact_email = << >> \/ IsEmail(data.contact_email)
        THEN {} ELSE {"contact_email"})

\* the effect "auto-generate slug from name", run after a render in which the
\* name changed
SlugEffect(mode, values) ==
  IF /\ mode = "create"
     /\ values.name # << >>
     /\ \/ values.slug = << >>
        \/ values.slug = generateSlug(SubSeq(values.name, 1, Len(values.name) - 1))
  THEN [values EXCEPT !.slug = generateSlug(values.name)]
  ELSE values

\* TenantForm.handleSubmit: empty optional fields become undefined
TenantCleanedValues(values) ==
  [values EXCEPT
     !.contact_email = IF @ = << >> THEN Undefined ELSE @,
     !.contact_phone = IF @ = << >> THEN Undefined ELSE @]

\* a handleSubmit that hands every value to the update mutation
TenantMutationDataWithSlug(mode, values) == values

\* TenantDialog.handleSubmit: the argument of mutateAsync; the update gets the
\* values without slug
TenantMutationData(mode, values) ==
  IF mode = "create" THEN values
  ELSE [f \in DOMAIN values \ {"slug"} |-> values[f]]

\* the inputs of the form, and the texts each takes
TenantInputs ==
  [name |-> NameTexts, slug |-> SlugTexts,
   contact_email |-> {<< >>, AnEmail, <<"a">>},
   contact_phone |-> {<< >>, <<"1">>}]

\* disabled={isLoading || mode === "edit"} of the slug input, with no submit
\* in progress
TenantFieldDisabled(mode, f) == mode = "edit" /\ f = "slug"

\* TenantDialog renders the form: in create mode without defaultValues, in
\* edit mode with those of the tenant
TfMount(seed) ==
  /\ tfMode = "unmounted"
  /\ LET mode == IF seed = NoValues THEN "create" ELSE "edit"
     IN /\ tfMode' = mode
        /\ tfValues' = SlugEffect(mode,
             IF seed = NoValues THEN TenantFormDefaults ELSE seed)
  /\ tfLast' = [NoFormStep EXCEPT !.event = "mount"]
  /\ tfSlugInput' = "none"
  /\ tfTenant' = TenantIdOf(seed)

\* the dialog closes and its content is unmounted
TfUnmount ==
  /\ tfMode # "unmounted"
  /\ tfMode' = "unmounted"
  /\ tfValues' = NoValues
  /\ tfLast' = NoFormStep
  /\ tfSlugInput' = "none"
  /\ tfTenant' = NoId

\* the user changes the value of an enabled input; the effect on the name
\* runs after a render in which the name changed
TfInput(f, v) ==
  /\ tfMode # "unmounted"
  /\ ~TenantFieldDisabled(tfMode, f)
  /\ v \in TenantInputs[f]
  /\ v # tfValues[f]
  /\ tfValues' = IF f = "name"
                 THEN SlugEffect(tfMode, [tfValues EXCEPT ![f] = v])
                 ELSE [tfValues EXCEPT ![f] = v]
  /\ tfLast' = [NoFormStep EXCEPT !.event = "input"]
  /\ tfSlugInput' = IF f # "slug" THEN tfSlugInput
                    ELSE IF v = generateSlug(tfValues.name) THEN "derived"
                    ELSE "differs"
  /\ UNCHANGED <<tfMode, tfTenant>>

\* the user switches is_active, which the form shows in edit mode
TfSwitch ==
  /\ tfMode = "edit"
  /\ tfValues' = [tfValues EXCEPT !.is_active = ~@]
  /\ tfLast' = [NoFormStep EXCEPT !.event = "input"]
  /\ UNCHANGED <<tfMode, tfSlugInput, tfTenant>>

\* the form is submitted: form.handleSubmit validates, and when there is no
\* issue TenantForm.handleSubmit hands the cleaned values to
\* TenantDialog.handleSubmit, which invokes the create or the update mutation
TfSubmit ==
  /\ tfMode # "unmounted"
  /\ LET errors == tenantFormSchema(tfValues)
     IN tfLast' =
          IF errors # {}
          THEN [NoFormStep EXCEPT !.event = "invalid", !.errors = errors]
          ELSE [NoFormStep EXCEPT
                  !.event = "submitted", !.calls = 1,
                  !.binding = IF tfMode = "create" THEN "useCreateTenant"
                                                   ELSE "useUpdateTenant",
                  !.id = tfTenant,
                  !.payload = TenantMutationData(tfMode,
                                TenantCleanedValues(tfValues))]
  /\ UNCHANGED <<tfMode, tfValues, tfSlugInput, tfTenant>>

NextTenantForm ==
  \/ \E seed \in SeedTenants \cup {NoValues} :
       TfMount(seed) /\ UNCHANGED <<cacheVars, cdVars, delVars, gsVars, cfVars, pfVars, ufVars>>
  \/ TfUnmount /\ UNCHANGED <<cacheVars, cdVars, delVars, gsVars, cfVars, pfVars, ufVars>>
  \/ \E f \in {"name", "slug", "contact_email", "contact_phone"},
        v \in NameTexts \cup SlugTexts \cup TenantInputs.contact_email \cup TenantInputs.contact_phone :
       TfInput(f, v) /\ UNCHANGED <<cacheVars, cdVars, delVars, gsVars, cfVars, pfVars, ufVars>>
  \/ TfSwitch /\ UNCHANGED <<cacheVars, cdVars, delVars, gsVars, cfVars, pfVars, ufVars>>
  \/ TfSubmit /\ UNCHANGED <<cacheVars, cdVars, delVars, gsVars, cfVars, pfVars, ufVars>>

SpecTenantForm == Init /\ [][NextTenantForm]_vars

(***************************************************************************)
(* UserForm.                                                               *)
(***************************************************************************)
\* a text of n letters
Letters(n) == [i \in 1..n |-> "a"]

\* texts typed into the password input: empty, of 1, 7, 8 and 9 letters, and
\* a blank
PasswordTexts == {Letters(n) : n \in {0, 1, 7, 8, 9}} \cup {<<" ">>}

\* an identifier that is undefined
UndefinedId == "undefined"

\* the props of the form other than mode, defaultValues and onSubmit
UserFormProps ==
  [showTenantSelector : BOOLEAN, showRoleSelector : BOOLEAN,
   currentTenantId : Ids \cup {UndefinedId}]

\* the defaultValues of useForm when no defaultValues prop is given
UserFormDefaults(props) ==
  [email |-> << >>, first_name |-> << >>, last_name |-> << >>,
   password |-> << >>, is_active |-> TRUE,
   tenant_id |-> IF props.showTenantSelector THEN NoId
                 ELSE props.currentTenantId,
   role_ids |-> {}]

\* the defaultValues prop of the users the form edits
SeedUsers(props) ==
  { [UserFormDefaults(props) EXCEPT
       !.email = AnEmail, !.first_name = <<"a">>, !.last_name = <<"a">>,
       !.tenant_id = "a", !.role_ids = {"r"}],
    [UserFormDefaults(props) EXCEPT
       !.email = AnEmail, !.first_name = <<"a">>, !.last_name = <<"a">>,
       !.tenant_id = "b", !.is_active = FALSE] }

\* a password rule without a minimum length
PasswordIssueNoMin(mode, password) == mode = "create" /\ password = << >>

\* the password of createUserSchema (min(8)) and of editUserSchema (min(8),
\* optional, or the empty string) has an issue; max(100) is beyond the texts
\* typed here
PasswordIssue(mode, password) ==
  IF mode = "create" THEN Len(password) < 8
  ELSE ~(Len(password) >= 8 \/ password = << >>)

\* createUserSchema / editUserSchema: the paths of the issues of a parse
userFormSchema(mode, data) ==
  (IF IsEmail(data.email) THEN {} ELSE {"email"})
  \cup (IF Len(data.first_name) >= 1 THEN {} ELSE {"first_name"})
  \cup (IF Len(data.last_name) >= 1 THEN {} ELSE {"last_name"})
  \cup (IF PasswordIssue(mode, data.password) THEN {"password"} ELSE {})

\* a handleSubmit that hands on the tenant_id of the form values
UserCleanedValuesFormTenant(props, values) ==
  [values EXCEPT !.password = IF @ = << >> THEN Undefined ELSE @]

\* handleSubmit: the cleanedValues handed to onSubmit
UserCleanedValues(props, values) ==
  [values EXCEPT
     !.password = IF @ = << >> THEN Undefined ELSE @,
     !.tenant_id = IF props.showTenantSelector THEN @
                   ELSE props.currentTenantId]

\* the inputs of the form that take a text, and the texts each takes
UserInputs ==
  [email |-> {<< >>, AnEmail, <<"a">>},
   first_name |-> {<< >>, <<"a">>},
   last_name |-> {<< >>, <<"a">>},
   password |-> PasswordTexts]

\* a page renders the form, in create mode or with the values of a user
UfMount(mode, props, seed) ==
  /\ ufMode = "unmounted"
  /\ seed = NoValues <=> mode = "create"
  /\ ufMode' = mode
  /\ ufProps' = props
  /\ ufValues' = IF seed = NoValues THEN UserFormDefaults(props) ELSE seed
  /\ ufLast' = [NoFormStep EXCEPT !.event = "mount"]

\* the form is unmounted
UfUnmount ==
  /\ ufMode # "unmounted"
  /\ ufMode' = "unmounted"
  /\ ufProps' = NoValues
  /\ ufValues' = NoValues
  /\ ufLast' = NoFormStep

\* the user changes the value of a text input
UfInput(f, v) ==
  /\ ufMode # "unmounted"
  /\ v \in UserInputs[f]
  /\ v # ufValues[f]
  /\ ufValues' = [ufValues EXCEPT ![f] = v]
  /\ ufLast' = [NoFormStep EXCEPT !.event = "input"]
  /\ UNCHANGED <<ufMode, ufProps>>

\* the user selects a tenant: the selector is rendered when showTenantSelector
\* is set, and is disabled in edit mode
UfSelectTenant(t) ==
  /\ ufMode = "create"
  /\ ufProps.showTenantSelector
  /\ t # ufValues.tenant_id
  /\ ufValues' = [ufValues EXCEPT !.tenant_id = t]
  /\ ufLast' = [NoFormStep EXCEPT !.event = "input"]
  /\ UNCHANGED <<ufMode, ufProps>>

\* the user checks or unchecks a role, or, in edit mode, switches is_active
UfToggle(f) ==
  /\ ufMode # "unmounted"
  /\ \/ /\ f = "role_ids"
        /\ ufProps.showRoleSelector
        /\ ufValues' = [ufValues EXCEPT
             !.role_ids = IF "r" \in @ THEN @ \ {"r"} ELSE @ \cup {"r"}]
     \/ /\ f = "is_active"
        /\ ufMode = "edit"
        /\ ufValues' = [ufValues EXCEPT !.is_active = ~@]
  /\ ufLast' = [NoFormStep EXCEPT !.event = "input"]
  /\ UNCHANGED <<ufMode, ufProps>>

\* the form is submitted: form.handleSubmit validates with the schema of the
\* mode, and calls handleSubmit, which calls onSubmit, only when there is no
\* issue
UfSubmit ==
  /\ ufMode # "unmounted"
  /\ LET errors == userFormSchema(ufMode, ufValues)
     IN ufLast' =
          IF errors # {}
          THEN [NoFormStep EXCEPT !.event = "invalid", !.errors = errors]
          ELSE [NoFormStep EXCEPT !.event = "submitted", !.calls = 1,
                  !.payload = UserCleanedValues(ufProps, ufValues)]
  /\ UNCHANGED <<ufMode, ufProps, ufValues>>

NextUserForm ==
  \/ \E mode \in {"create", "edit"}, props \in UserFormProps :
     \E seed \in SeedUsers(props) \cup {NoValues} :
       UfMount(mode, props, seed) /\ UNCHANGED <<cacheVars, cdVars, delVars, gsVars, cfVars, pfVars, tfVars>>
  \/ UfUnmount /\ UNCHANGED <<cacheVars, cdVars, delVars, gsVars, cfVars, pfVars, tfVars>>
  \/ \E f \in {"email", "first_name", "last_name", "password"},
        v \in UserInputs.email \cup PasswordTexts :
       UfInput(f, v) /\ UNCHANGED <<cacheVars, cdVars, delVars, gsVars, cfVars, pfVars, tfVars>>
  \/ \E t \in Ids \cup {NoId} :
       UfSelectTenant(t) /\ UNCHANGED <<cacheVars, cdVars, delVars, gsVars, cfVars, pfVars, tfVars>>
  \/ \E f \in {"role_ids", "is_active"} :
       UfToggle(f) /\ UNCHANGED <<cacheVars, cdVars, delVars, gsVars, cfVars, pfVars, tfVars>>
  \/ UfSubmit /\ UNCHANGED <<cacheVars, cdVars, delVars, gsVars, cfVars, pfVars, tfVars>>

SpecUserForm == Init /\ [][NextUserForm]_vars

(***************************************************************************)
(* The forms of the dialogs: a dialog is modal, so one form is mounted at  *)
(* a time.                                                                 *)
(***************************************************************************)
FormsMounted ==
  {f \in {"client", "product", "tenant", "user"} :
     CASE f = "client" -> cfMode # "unmounted"
       [] f = "product" -> pfMode # "unmounted"
       [] f = "tenant" -> tfMode # "unmounted"
       [] f = "user" -> ufMode # "unmounted"}

NextForms ==
  \/ FormsMounted \subseteq {"client"} /\ NextClientForm
  \/ FormsMounted \subseteq {"product"} /\ NextProductForm
  \/ FormsMounted \subseteq {"tenant"} /\ NextTenantForm

SpecForms == Init /\ [][NextForms]_vars

(***************************************************************************)
(* Claims about the data-access layer, checked under Spec.                 *)
(***************************************************************************)
Succeeded(b) == settled.result = "success" /\ settled.binding = b

\* C1: whenever a successful mutation has invalidated a collection key, every
\* cached entry of a query that reads a single item of that collection
\* (useTenant, useUser, useClient, useClientAccounts, useClientDocuments and
\* the tenant query of the branding page) is stale.
C1_CollectionInvalidationReachesItems ==
  \A iq \in ItemQueries :
    ( /\ settled.result = "success"
      /\ <<iq.collection>> \in Range(invalidated)
      /\ iq.query.queryKey \in DOMAIN cache )
    => cache[iq.query.queryKey] = "stale"

\* C2: a step that hands a key to invalidateQueries, or that turns a cached
\* entry from fresh to stale, is the step in which a call that was in flight
\* settles successfully, and the keys are those of that call's binding: never
\* the step that issues a call, never while the call stays pending, never a
\* rejection.
C2_InvalidationOnlyAfterSuccess ==
  [][ ( \/ invalidated' # << >>
        \/ \E k \in DOMAIN cache \cap DOMAIN cache' :
             cache[k] = "fresh" /\ cache'[k] = "stale" )
      => \E m \in pending :
           /\ m \notin pending'
           /\ settled' = [binding |-> m.binding, id |-> m.id, result |-> "success"]
           /\ invalidated' = onSuccess(m.binding, m.id)
           /\ \A k \in DOMAIN cache \cap DOMAIN cache' :
                (cache[k] = "fresh" /\ cache'[k] = "stale")
                  => \E p \in Range(invalidated') : IsPrefix(p, k) ]_vars

\* C2 witness: a call has just resolved and its invalidation made an entry stale
C2_Witness ==
  /\ settled.result = "success"
  /\ invalidated # << >>
  /\ \E k \in DOMAIN cache :
       cache[k] = "stale" /\ \E p \in Range(invalidated) : IsPrefix(p, k)

\* C4 as stated: every mutation binding, useChangePassword included,
\* invalidates on success the collection key of the resource it writes to.
C4_EveryBindingInvalidatesCollection ==
  settled.result = "success"
    => <<Resource(settled.binding)>> \in Range(invalidated)

\* C4 amended: every mutation binding other than useChangePassword invalidates
\* on success the collection key of the resource it writes to, and every
\* cached entry under that key is then stale; useChangePassword invalidates
\* no key.
C4_BindingsInvalidateCollection ==
  settled.result = "success"
    => IF settled.binding = "useChangePassword"
       THEN invalidated = << >>
       ELSE /\ <<Resource(settled.binding)>> \in Range(invalidated)
            /\ \A k \in DOMAIN cache :
                 k[1] = Resource(settled.binding) => cache[k] = "stale"

\* C4 witness: a module binding has resolved and the modules entry is stale
C4_Witness ==
  /\ settled.result = "success"
  /\ settled.binding \in {"useEnableModule", "useDisableModule"}
  /\ <<"modules">> \in DOMAIN cache
  /\ cache[<<"modules">>] = "stale"

\* C5: a successful update of the tenant, user or client with identifier id
\* invalidates the collection key and the item key [collection, id] of that
\* record, and the item key of no other record.
C5_UpdateInvalidatesCollectionAndItem ==
  ( /\ settled.result = "success"
    /\ settled.binding \in {"useUpdateTenant", "useUpdateUser", "useUpdateClient"} )
  => /\ <<Resource(settled.binding)>> \in Range(invalidated)
     /\ <<Resource(settled.binding), settled.id>> \in Range(invalidated)
     /\ \A p \in Range(invalidated) :
          Len(p) >= 2 => p = <<Resource(settled.binding), settled.id>>

\* C5 witness: a user update has resolved while that user's entry was cached
C5_Witness ==
  /\ Succeeded("useUpdateUser")
  /\ settled.id \in Ids
  /\ <<"users", settled.id>> \in DOMAIN cache
  /\ cache[<<"users", settled.id>>] = "stale"

StatsKeys ==
  {useDashboardStats.queryKey, useTenantStats.queryKey, useSystemHealth.queryKey}

\* C6: a step in which a client creation or deletion resolves invalidates
\* ["clients"] and ["stats"] and leaves every cached dashboard, tenant and
\* health statistics entry stale; a step in which a client update resolves
\* invalidates ["clients"] and the item key and changes no statistics entry.
C6_ClientInvalidation ==
  [][ /\ (settled'.result = "success"
           /\ settled'.binding \in {"useCreateClient", "useDeleteClient"})
         => /\ Range(invalidated') = {<<"clients">>, <<"stats">>}
            /\ \A k \in StatsKeys \cap DOMAIN cache' : cache'[k] = "stale"
            /\ \A k \in DOMAIN cache' : k[1] = "clients" => cache'[k] = "stale"
      /\ (settled'.result = "success" /\ settled'.binding = "useUpdateClient")
         => /\ Range(invalidated') = {<<"clients">>, <<"clients", settled'.id>>}
            /\ \A k \in DOMAIN cache' : k[1] = "clients" => cache'[k] = "stale"
            /\ \A k \in StatsKeys \cap DOMAIN cache :
                 k \in DOMAIN cache' /\ cache'[k] = cache[k] ]_vars

\* C6 witness: a client deletion has resolved with a statistics entry cached
C6_Witness ==
  /\ Succeeded("useDeleteClient")
  /\ \E k \in StatsKeys \cap DOMAIN cache : cache[k] = "stale"

\* C7: a step in which a product creation resolves invalidates "products"
\* and "stats"; a step in which a product update resolves invalidates only
\* "products" and the updated product's item key, and changes no statistics
\* entry.
C7_ProductInvalidation ==
  [][ /\ (settled'.result = "success" /\ settled'.binding = "useCreateProduct")
         => /\ Range(invalidated') = {<<"products">>, <<"stats">>}
            /\ \A k \in DOMAIN cache' :
                 k[1] \in {"products", "stats"} => cache'[k] = "stale"
      /\ (settled'.result = "success" /\ settled'.binding = "useUpdateProduct")
         => /\ Range(invalidated') = {<<"products">>, <<"products", settled'.id>>}
            /\ \A k \in DOMAIN cache' : k[1] = "products" => cache'[k] = "stale"
            /\ \A k \in StatsKeys \cap DOMAIN cache :
                 k \in DOMAIN cache' /\ cache'[k] = cache[k] ]_vars

\* C7 witness: a product update has resolved and left a cached statistics
\* entry fresh
C7_Witness ==
  /\ Succeeded("useUpdateProduct")
  /\ \E k \in StatsKeys \cap DOMAIN cache : cache[k] = "fresh"
(***************************************************************************)
(* Claims about ClientDialog, checked under SpecClientDialog.              *)
(***************************************************************************)
\* C3: in the step in which the remote call of a create or update rejects,
\* the call leaves the calls in flight and none is issued in its place, the
\* catch clause of handleSubmit receives the error the call rejected with,
\* and no cache entry changes and no key is invalidated; the step that issued
\* the call changed no cache entry either.
C3_FailureIsTerminal ==
  [][ /\ cdLast'.event = "rejected"
         => /\ \E m \in pending :
                 /\ m.binding = cdLast'.binding
                 /\ m.id = cdLast'.id
                 /\ pending' = pending \ {m}
            /\ cdLast'.error \in Errors
            /\ cdLast'.caught = cdLast'.error
            /\ cache' = cache
            /\ invalidated' = << >>
      /\ cdLast'.event = "submit"
         => /\ cache' = cache
            /\ Cardinality(pending') = Cardinality(pending) + 1 ]_vars

\* C3 witness: an update was rejected while an entry was cached, and the
\* dialog caught the error
C3_Witness ==
  /\ cdLast.event = "rejected"
  /\ cdLast.binding = "useUpdateClient"
  /\ cdLast.caught \in Errors
  /\ cdUpdate.status = "error"
  /\ DOMAIN cache # {}

(***************************************************************************)
(* Claims about the delete dialogs, checked under SpecDelete.              *)
(***************************************************************************)
\* C8: a permanent-delete call is issued only with a confirmation text that is
\* exactly the slug of the tenant it deletes; with any other text in
\* permanent mode the action is disabled and a click issues no call.
C8_PermanentDeleteNeedsExactSlug ==
  /\ ( /\ delLast.event = "issued"
       /\ delLast.fn = "api.tenants.deletePermanent" )
     => /\ delLast.text = TenantSlug(delLast.id)
        /\ delLast.mode = "permanent"
  /\ (DtRendered /\ dtMode = "permanent" /\ confirmText # TenantSlug(dtTenant))
     => /\ DtActionDisabled(dtMode)
        /\ ~ENABLED DtHandleDelete

\* C8 witness: the permanent delete of a tenant was issued with its slug typed
C8_Witness ==
  /\ delLast.event = "issued"
  /\ delLast.fn = "api.tenants.deletePermanent"
  /\ delLast.text = TenantSlug(delLast.id)

\* C9: in both delete dialogs the confirmation text is empty whenever the
\* dialog is closed, and a text that is not empty was typed for the record the
\* dialog shows.
C9_ConfirmTextClearedWhenClosed ==
  /\ ~dtOpen => confirmText = << >>
  /\ ~dcOpen => dcConfirmText = << >>
  /\ (dtOpen /\ confirmText # << >>) => typedFor.tenant = dtTenant
  /\ (dcOpen /\ dcConfirmText # << >>) => typedFor.client = dcClient

\* C10: in deactivate mode, with no delete in flight, the action is enabled
\* and a click issues a call whatever the confirmation text is; the call a
\* click issues in deactivate mode is api.tenants.delete.
C10_DeactivateNeedsNoConfirmation ==
  /\ (DtRendered /\ dtMode = "deactivate" /\ ~isDeleting)
     => /\ ~DtActionDisabled(dtMode)
        /\ ENABLED DtHandleDelete
  /\ ( /\ delLast.event = "issued"
       /\ delLast.dialog = "DeleteTenantDialog"
       /\ delLast.mode = "deactivate" )
     => delLast.fn = "api.tenants.delete"

\* C10 witness: a deactivation was issued while a confirmation text that is
\* not the tenant's slug was left in the input
C10_Witness ==
  /\ delLast.event = "issued"
  /\ delLast.mode = "deactivate"
  /\ delLast.fn = "api.tenants.delete"
  /\ delLast.text # << >>
  /\ delLast.text # TenantSlug(delLast.id)
(***************************************************************************)
(* Claims about the forms.                                                 *)
(***************************************************************************)
\* the name fields client_type selects are all filled
ClientGroupFilled(values) ==
  IF values.client_type = "individual"
  THEN values.first_name # << >> /\ values.last_name # << >>
  ELSE values.entity_name # << >>

\* C11: a submission of the client form reaches the submit callback only if
\* the name fields selected by client_type are filled; a submission with an
\* empty first_name or last_name for "individual", or an empty entity_name
\* for "entity" or "trust", is rejected without a call of the submit
\* callback, with an error at client_type and none at a name field.
C11_CrossFieldValidation ==
  /\ cfLast.event = "submitted" => ClientGroupFilled(cfValues)
  /\ (cfLast.event \in {"invalid", "submitted"} /\ ~ClientGroupFilled(cfValues))
     => /\ cfLast.event = "invalid"
        /\ cfLast.calls = 0
        /\ "client_type" \in cfLast.errors
        /\ cfLast.errors \cap {"first_name", "last_name", "entity_name"} = {}

\* C11 witness: an individual with a first name and no last name was rejected
C11_Witness ==
  /\ cfLast.event = "invalid"
  /\ cfValues.client_type = "individual"
  /\ cfValues.first_name = <<"a">>
  /\ cfValues.last_name = << >>
  /\ cfLast.errors = {"client_type"}

\* C12: after every step of the client form in create mode the name fields
\* that client_type does not select are empty, and a step that changes
\* client_type between "individual" and the other types leaves the name
\* fields of the newly selected type empty.
C12_UnselectedGroupCleared ==
  [][ cfMode' = "create"
      => /\ IF cfValues'.client_type = "individual"
            THEN cfValues'.entity_name = << >>
            ELSE cfValues'.first_name = << >> /\ cfValues'.last_name = << >>
         /\ ( /\ cfMode = "create"
              /\ (cfValues.client_type = "individual")
                   # (cfValues'.client_type = "individual") )
            => /\ cfValues'.first_name = << >>
               /\ cfValues'.last_name = << >>
               /\ cfValues'.entity_name = << >> ]_vars

\* C12 witness: the type was switched back to "individual" and the name
\* fields are empty
C12_Witness ==
  /\ cfMode = "create"
  /\ cfLast.event = "type"
  /\ cfValues.client_type = "individual"
  /\ cfValues.first_name = << >>
  /\ cfValues.entity_name = << >>

\* C13: a payload submitted in edit mode carries the client_type of the seed
\* (client form), the code and the module_id of the seed (product form), and
\* no slug (tenant dialog).
C13_EditKeepsIdentity ==
  /\ (cfMode = "edit" /\ cfLast.event = "submitted")
     => cfLast.payload.client_type = cfSeed.client_type
  /\ (pfMode = "edit" /\ pfLast.event = "submitted")
     => /\ pfLast.payload.code = pfSeed.code
        /\ pfLast.payload.module_id = pfSeed.module_id
  /\ (tfMode = "edit" /\ tfLast.event = "submitted")
     => "slug" \notin DOMAIN tfLast.payload

\* C13 witness: a product was edited and submitted with a changed name
C13_Witness ==
  /\ pfMode = "edit"
  /\ pfLast.event = "submitted"
  /\ pfValues.name # pfSeed.name
  /\ pfLast.payload.code = pfSeed.code

\* C14: in a payload handed to the submit callback by the client form or the
\* product form, each text field that is present equals the trimmed form
\* value, and an optional text field whose trimmed form value is empty is
\* absent.
C14_PayloadNormalized ==
  /\ cfLast.event = "submitted"
     => \A f \in ClientTextFields :
          /\ f \in DOMAIN cfLast.payload => cfLast.payload[f] = trim(cfValues[f])
          /\ trim(cfValues[f]) = << >> => f \notin DOMAIN cfLast.payload
  /\ pfLast.event = "submitted"
     => /\ \A f \in ProductRequiredTexts \cup {"code"} :
             /\ f \in DOMAIN pfLast.payload
             /\ pfLast.payload[f] = trim(pfValues[f])
        /\ \A f \in ProductOptionalTexts :
             /\ f \in DOMAIN pfLast.payload => pfLast.payload[f] = trim(pfValues[f])
             /\ trim(pfValues[f]) = << >> => f \notin DOMAIN pfLast.payload

\* C14 witness: a client was submitted with a phone typed after white space
\* and a last name of white space only
C14_Witness ==
  /\ cfLast.event = "submitted"
  /\ cfValues.phone = <<" ", "a">>
  /\ cfLast.payload.phone = <<"a">>
  /\ cfValues.last_name = <<" ">>
  /\ "last_name" \notin DOMAIN cfLast.payload

\* C15: a submission of the client form whose extra_data is not empty and is
\* no JSON text calls the submit callback once, with the payload of the same
\* values with an empty extra_data, which has no extra_data; when extra_data
\* is a JSON text the payload carries its parsed value.
C15_MalformedJsonDropped ==
  cfLast.event = "submitted"
  => /\ (cfValues.extra_data # << >> /\ ~IsJson(cfValues.extra_data))
        => /\ cfLast.calls = 1
           /\ "extra_data" \notin DOMAIN cfLast.payload
           /\ cfLast.payload =
                ClientSubmitData([cfValues EXCEPT !.extra_data = << >>])
     /\ IsJson(cfValues.extra_data)
        => /\ "extra_data" \in DOMAIN cfLast.payload
           /\ cfLast.payload.extra_data = JSONParse(cfValues.extra_data).value

\* C15 witness: a client was submitted with an extra_data that is no JSON text
C15_Witness ==
  /\ cfLast.event = "submitted"
  /\ cfValues.extra_data = <<"1", " ", "1">>
  /\ "extra_data" \notin DOMAIN cfLast.payload

\* C16: in the user form an empty password passes validation in edit mode
\* and the payload then has no password value; a password that is not empty
\* and shorter than 8 characters fails validation in both modes; an empty
\* password fails validation in create mode.
C16_PasswordRule ==
  ufLast.event \in {"invalid", "submitted"}
  => /\ (ufMode = "edit" /\ ufValues.password = << >>)
        => /\ "password" \notin ufLast.errors
           /\ ufLast.event = "submitted" => ufLast.payload.password = Undefined
     /\ (ufValues.password # << >> /\ Len(ufValues.password) < 8)
        => ufLast.event = "invalid" /\ "password" \in ufLast.errors
     /\ (ufMode = "create" /\ ufValues.password = << >>)
        => ufLast.event = "invalid" /\ "password" \in ufLast.errors

\* C16 witness: a user was edited and submitted with the password left empty
C16_Witness ==
  /\ ufMode = "edit"
  /\ ufLast.event = "submitted"
  /\ ufValues.password = << >>
  /\ ufLast.payload.password = Undefined
(***************************************************************************)
(* Claims about the messages and the feedback of the dialogs.              *)
(***************************************************************************)
\* C17: the message of the error toast of a failed create or update is the
\* detail of the error if it has one, otherwise its message (the text of a
\* thrown string counts as its message), otherwise the fallback text of the
\* dialog.
C17_DetailBeforeMessage ==
  (cdLast.event = "rejected" /\ cdLast.toast # NoToast)
  => LET error == cdLast.error
     IN cdLast.toast.title =
          IF error.detail # None THEN error.detail
          ELSE IF error.message # None THEN error.message
          ELSE IF error.kind = "string" THEN error.text
          ELSE IF page = "products"
               THEN "Failed to save product. Please try again."
               ELSE "Failed to save client. Please try again."

\* C18: in the delete dialogs, the step in which the call of a delete
\* resolves invalidates cache keys, shows a notice and closes the dialog; the
\* step in which it rejects shows an error message and leaves the dialog as
\* it is.
C18_SubmitFeedback ==
  [][ /\ delLast'.event = "resolved"
         => /\ invalidated' # << >>
            /\ delLast'.toast # NoToast
            /\ IF delLast'.dialog = "DeleteTenantDialog" THEN ~dtOpen' ELSE ~dcOpen'
      /\ delLast'.event = "rejected"
         => /\ delLast'.toast # NoToast
            /\ dtOpen' = dtOpen
            /\ dcOpen' = dcOpen ]_vars

\* C19: no entry is cached under a key of an ID-keyed query whose identifier
\* is empty, since no remote call is issued for it.
C19_NoCallWithEmptyId ==
  \A k \in DOMAIN cache : ~(Len(k) >= 2 /\ k[2] = NoId)

\* C20: while the dialog is closed neither its create nor its update
\* mutation is in the error state or holds an error, so the dialog opens
\* with no error message of an earlier attempt.
C20_ErrorResetWhenClosed ==
  ~cdOpen
  => /\ cdCreate.status # "error" /\ cdCreate.error = NoError
     /\ cdUpdate.status # "error" /\ cdUpdate.error = NoError

\* C20 witness: the product dialog was closed while it showed the error of
\* a failed create, and neither mutation holds an error
C20_Witness ==
  /\ page = "products"
  /\ ~cdOpen
  /\ cdLast.event = "closed"
  /\ cdLast.error \in Errors
  /\ cdClient = NoId
  /\ cdCreate = IdleMutation
  /\ cdUpdate = IdleMutation
(***************************************************************************)
(* generateSlug on its own.                                                *)
(***************************************************************************)
InitSlug ==
  /\ InitData /\ InitDialogs /\ InitForms /\ page = "tenants"
  /\ gsName \in SlugNames
  /\ gsSlug = Undefined

\* generateSlug is called with the name
GenerateSlug ==
  /\ gsSlug = Undefined
  /\ gsSlug' = generateSlug(gsName)
  /\ UNCHANGED <<gsName, cacheVars, cdVars, delVars, cfVars, pfVars, tfVars, ufVars>>

NextSlug == GenerateSlug

SpecSlug == InitSlug /\ [][NextSlug]_vars

(***************************************************************************)
(* The submits of the client, product and tenant dialogs, each on its page. *)
(***************************************************************************)
InitSubmit ==
  /\ InitData /\ InitDialogs /\ InitForms /\ InitSlugIdle
  /\ page \in {"clients", "products", "tenants"}

NextSubmit ==
  \/ page \in {"clients", "products"} /\ NextClientDialog
  \/ page = "tenants" /\ NextTenantForm

SpecSubmit == InitSubmit /\ [][NextSubmit]_vars

(***************************************************************************)
(* Calls in flight, one mutation per submit, and the forms' own state.     *)
(***************************************************************************)
\* C21: in the client and product dialogs a call in flight leaves the set of
\* pending calls only by settling, also when the dialog has been closed and
\* its mutations reset in between; the step in which it resolves hands the
\* keys of its binding's onSuccess to invalidateQueries, each once, marks the
\* cached entries under them stale, and leaves no second copy of the call.
C21_InFlightNeverCancelled ==
  [][ /\ \A m \in pending \ pending' :
           /\ settled'.binding = m.binding
           /\ settled'.id = m.id
           /\ settled'.result \in {"success", "error"}
           /\ \A n \in pending' : n.call # m.call
      /\ settled'.result = "success" =>
           /\ invalidated' = onSuccess(settled'.binding, settled'.id)
           /\ \A i, j \in DOMAIN invalidated' :
                invalidated'[i] = invalidated'[j] => i = j
           /\ \A k \in DOMAIN cache :
                (\E i \in DOMAIN invalidated' : IsPrefix(invalidated'[i], k))
                  => cache'[k] = "stale"
    ]_vars

\* C21 witness: a call resolved after its dialog had been closed, and its
\* invalidation made a cached entry stale
C21_Witness ==
  /\ cdLast.event = "resolved"
  /\ ~cdLast.open
  /\ settled.result = "success"
  /\ \E k \in DOMAIN cache : cache[k] = "stale"

\* C22: in a step that changes the name of the tenant form, the slug is left
\* as it is in edit mode, and in create mode when the slug the user typed
\* last differs from the one derived from the name it was typed next to.
C22_TypedSlugKept ==
  [][ (/\ tfMode # "unmounted"
       /\ tfMode' = tfMode
       /\ tfValues'.name # tfValues.name
       /\ tfMode = "edit" \/ tfSlugInput = "differs")
      => tfValues'.slug = tfValues.slug
    ]_vars

C24_SlugFollowsName ==
  (tfMode = "create" /\ tfSlugInput = "none")
  => tfValues.slug = generateSlug(tfValues.name)

\* C25: a payload the client form hands to onSubmit has a first_name and a
\* last_name that are not empty when its client_type is "individual", and an
\* entity_name that is not empty when it is "entity" or "trust".
C25_PayloadHasRequiredNames ==
  cfLast.event = "submitted"
  => LET payload == cfLast.payload
         required == IF payload.client_type = "individual"
                     THEN {"first_name", "last_name"}
                     ELSE {"entity_name"}
     IN \A f \in required : f \in DOMAIN payload /\ payload[f] # << >>

\* C26: the delete call of DeleteClientDialog is issued with a confirmation
\* text that is the display_name of the client it deletes.
C26_DeleteClientNeedsDisplayName ==
  (delLast.event = "issued" /\ delLast.dialog = "DeleteClientDialog")
  => delLast.text = ClientDisplayName(delLast.id)

\* C27: at most one call of the mutations of the client or product dialog is
\* in flight.
C27_OneMutationInFlight ==
  Cardinality({m \in pending :
                 m.binding \in {DialogBindings.create, DialogBindings.update}})
    <= 1

\* C28: in edit mode of the client form, a step that is no input of the user
\* and that leaves the seed record as it is leaves the form values as they
\* are.
C28_RenderKeepsValues ==
  [][ (/\ cfMode = "edit"
       /\ cfMode' = "edit"
       /\ cfSeed' = cfSeed
       /\ cfLast'.event # "input")
      => cfValues' = cfValues
    ]_vars

\* C29: a submit of the client, product or tenant dialog invokes one
\* mutation: the create mutation when the dialog has no record, and otherwise
\* the update mutation with the id of the record, which is not empty.
C29_OneMutationPerSubmit ==
  [][ /\ cdLast'.event = "submit" =>
           /\ pending \subseteq pending'
           /\ \E m \in pending' :
                /\ pending' \ pending = {m}
                /\ m.id = cdClient
                /\ m.binding = IF cdClient = NoId THEN DialogBindings.create
                                ELSE DialogBindings.update
                /\ m.binding = DialogBindings.update => m.id # NoId
      /\ tfLast'.event = "submitted" =>
           /\ tfLast'.calls = 1
           /\ tfLast'.id = tfTenant
           /\ tfLast'.binding = IF tfTenant = NoId THEN "useCreateTenant"
                                 ELSE "useUpdateTenant"
           /\ tfLast'.binding = "useUpdateTenant" => tfLast'.id # NoId
    ]_vars

\* C29 witness: the product dialog, open for product b, was submitted and
\* the update of b is in flight
C29_Witness ==
  /\ cdLast.event = "submit"
  /\ cdClient = "b"
  /\ \E m \in pending : m.binding = "useUpdateProduct" /\ m.id = "b"

\* C30: a result of generateSlug is a fixed point of generateSlug, consists
\* of lower-case letters, digits and hyphens, has no two hyphens in a row,
\* and, when it has at least 2 characters, passes the slug rule of
\* tenantFormSchema.
C30_GenerateSlugIdempotent ==
  gsSlug # Undefined =>
    /\ generateSlug(gsSlug) = gsSlug
    /\ \A k \in 1..Len(gsSlug) : gsSlug[k] \in {"a", "1", "-"}
    /\ \A k \in 1..(Len(gsSlug) - 1) : ~(gsSlug[k] = "-" /\ gsSlug[k + 1] = "-")
    /\ Len(gsSlug) >= 2 =>
         "slug" \notin tenantFormSchema([TenantFormDefaults EXCEPT
                                           !.name = gsName, !.slug = gsSlug])

\* C30 witness: generateSlug was called with a name in which white space is
\* followed by a hyphen, and returned a slug with one hyphen
C30_Witness ==
  /\ gsName = <<"A", " ", "-", "1">>
  /\ gsSlug = <<"a", "-", "1">>

====
